---- MODULE Spec2Model ----
(***************************************************************************)
(* Model of the Optio signal server (src/optio-signal-server.js, the       *)
(* hardened server of lines 1-488): the room registry, the per-connection  *)
(* rate limit, the per-room duplicate cache (BoundedSeenIds), the          *)
(* heartbeat and the room sweep.                                           *)
(*                                                                         *)
(* Time is counted in abstract units.  The millisecond constants of the    *)
(* source are scaled down to a few units each; only their comparisons      *)
(* (>=, >, <=) matter to the code and these are kept as written.           *)
(***************************************************************************)
EXTENDS Integers, Sequences, FiniteSets, TLC

\* ------------------------------------------------------------------ bounds
\* The clock stops advancing here.
MaxTime == 3
\* Frames a connection may send beyond its per-window ceiling.
MaxExcess == 1
\* CONN_RATE_WINDOW_MS (1000 ms), CONN_RATE_MAX (50), MAX_ROOM_AGE_MS (1 h),
\* and the BoundedSeenIds options max (512) and ttlMs (5 min), scaled.
CONN_RATE_WINDOW_MS == 1
CONN_RATE_MAX == 3
MAX_ROOM_AGE_MS == 1
SEEN_MAX == 2
SEEN_TTL_MS == 1
\* IP_RATE_WINDOW_MS (60 s) and IP_RATE_MAX (100), scaled.
IP_RATE_WINDOW_MS == 1
IP_RATE_MAX == 2

\* ------------------------------------------------------------ value spaces
Conns == {1, 2, 3}
Null == 0
\* null / '' room code (both falsy in the source)
NoCode == <<>>

\* Strings are sequences of one-character strings.
RawCodes == { <<"a">>, <<"A", " ">>, <<" ", "b">>, <<"a", "!">>, <<" ">> }

NoData == [kind |-> "none", body |-> 0]
\* msg.data values: a well-shaped {sdp}, a well-shaped {candidate}, and an
\* object that has neither shape.
Payloads == { [kind |-> "sdp", body |-> 1], [kind |-> "sdp", body |-> 2],
              [kind |-> "candidate", body |-> 1], [kind |-> "other", body |-> 1] }

\* ---------------------------------------------------------------- utilities
Lower(ch) ==
  CASE ch = "A" -> "a"
    [] ch = "B" -> "b"
    [] OTHER -> ch

toLowerCase(s) == [i \in DOMAIN s |-> Lower(s[i])]

RECURSIVE trimStart(_)
trimStart(s) ==
  IF s # <<>> /\ Head(s) = " " THEN trimStart(Tail(s)) ELSE s

RECURSIVE trimEnd(_)
trimEnd(s) ==
  IF s # <<>> /\ s[Len(s)] = " " THEN trimEnd(SubSeq(s, 1, Len(s) - 1)) ELSE s

trim(s) == trimEnd(trimStart(s))

\* A normalization that folds case but keeps surrounding whitespace.
normalizeRoomCode_NoTrim(room) == toLowerCase(room)

normalizeRoomCode(room) == trim(toLowerCase(room))

CodeChars ==
  { "a", "b", "c", "d", "e", "f", "g", "h", "i", "j", "k", "l", "m",
    "n", "o", "p", "q", "r", "s", "t", "u", "v", "w", "x", "y", "z",
    "0", "1", "2", "3", "4", "5", "6", "7", "8", "9", "-" }

isValidRoomCode(room) ==
  /\ Len(room) >= 1
  /\ Len(room) <= 50
  /\ \A i \in DOMAIN room : room[i] \in CodeChars

\* The fingerprint of a payload.  SHA-256 is taken as collision-free: distinct
\* payloads get distinct fingerprints, equal payloads the same one.
sha256Base64Url22(data) == <<"sha", data.kind, data.body>>

\* A frame as the message handler sees it: whether JSON.parse succeeds, and
\* the fields of the parsed object.
Frame(t, isStr, room, data) ==
  [wellFormed |-> TRUE, type |-> t, roomIsString |-> isStr, room |-> room, data |-> data]

Garbage ==
  [wellFormed |-> FALSE, type |-> "", roomIsString |-> FALSE, room |-> NoCode, data |-> NoData]

validateMessageShape(msg) ==
  CASE msg.type \in {"create", "join"} ->
         /\ msg.roomIsString
         /\ isValidRoomCode(normalizeRoomCode(msg.room))
    [] msg.type = "signal" ->
         /\ msg.data # NoData
         /\ msg.data.kind \in {"sdp", "candidate"}
    [] msg.type \in {"leave", "pong"} -> TRUE
    [] OTHER -> FALSE

\* ------------------------------------------------------------ BoundedSeenIds
\* The Map of a BoundedSeenIds: entries [k, ts] in insertion order.
Keys(m) == { m[i].k : i \in DOMAIN m }

TsOf(m, key) == m[CHOOSE i \in DOMAIN m : m[i].k = key].ts

RECURSIVE MapDelete(_, _)
MapDelete(m, key) ==
  IF m = <<>> THEN <<>>
  ELSE IF Head(m).k = key THEN Tail(m)
  ELSE <<Head(m)>> \o MapDelete(Tail(m), key)

\* A purge that already drops an entry whose age equals the TTL.
RECURSIVE BoundedSeenIds_purgeExpired_Strict(_, _, _)
BoundedSeenIds_purgeExpired_Strict(m, now_, ttlMs) ==
  IF m = <<>> THEN <<>>
  ELSE IF now_ - Head(m).ts < ttlMs THEN m
  ELSE BoundedSeenIds_purgeExpired_Strict(Tail(m), now_, ttlMs)

RECURSIVE BoundedSeenIds_purgeExpired(_, _, _)
BoundedSeenIds_purgeExpired(m, now_, ttlMs) ==
  IF m = <<>> THEN <<>>
  ELSE IF now_ - Head(m).ts <= ttlMs THEN m
  ELSE BoundedSeenIds_purgeExpired(Tail(m), now_, ttlMs)

\* A has that finds the entry but leaves its timestamp and position alone.
BoundedSeenIds_has_NoRefresh(m, key, now_, ttlMs) ==
  LET m1 == BoundedSeenIds_purgeExpired(m, now_, ttlMs) IN
  IF key \notin Keys(m1) THEN [map |-> m1, found |-> FALSE]
  ELSE IF now_ - TsOf(m1, key) > ttlMs
       THEN [map |-> MapDelete(m1, key), found |-> FALSE]
       ELSE [map |-> m1, found |-> TRUE]

\* A has that refreshes the timestamp with set alone, which leaves the entry
\* at its place in the iteration order.
BoundedSeenIds_has_InPlace(m, key, now_, ttlMs) ==
  LET m1 == BoundedSeenIds_purgeExpired(m, now_, ttlMs) IN
  IF key \notin Keys(m1) THEN [map |-> m1, found |-> FALSE]
  ELSE IF now_ - TsOf(m1, key) > ttlMs
       THEN [map |-> MapDelete(m1, key), found |-> FALSE]
       ELSE [map |-> [i \in DOMAIN m1 |->
                        IF m1[i].k = key THEN [k |-> key, ts |-> now_] ELSE m1[i]],
             found |-> TRUE]

\* has(key, now): the map afterwards and the value returned.
BoundedSeenIds_has(m, key, now_, ttlMs) ==
  LET m1 == BoundedSeenIds_purgeExpired(m, now_, ttlMs) IN
  IF key \notin Keys(m1) THEN [map |-> m1, found |-> FALSE]
  ELSE IF now_ - TsOf(m1, key) > ttlMs
       THEN [map |-> MapDelete(m1, key), found |-> FALSE]
       ELSE [map |-> Append(MapDelete(m1, key), [k |-> key, ts |-> now_]),
             found |-> TRUE]

\* The while loop of add: drop the first key while size > max.
RECURSIVE EvictOldest(_, _)
EvictOldest(m, max) ==
  IF Len(m) > max /\ m # <<>> THEN EvictOldest(Tail(m), max) ELSE m

\* An add that never evicts.
BoundedSeenIds_add_NoEvict(m, key, now_, max, ttlMs) ==
  LET m1 == BoundedSeenIds_purgeExpired(m, now_, ttlMs)
  IN Append(MapDelete(m1, key), [k |-> key, ts |-> now_])

BoundedSeenIds_add(m, key, now_, max, ttlMs) ==
  LET m1 == BoundedSeenIds_purgeExpired(m, now_, ttlMs)
      m2 == Append(MapDelete(m1, key), [k |-> key, ts |-> now_])
  IN EvictOldest(m2, max)

\* --------------------------------------------------------------------- state
\* --------------------------------------------------------------- RateLimiter
\* this.buckets: key -> [count, windowStart]

\* A limiter that already refuses the attempt that reaches the ceiling.
RateLimiter_allow_Strict(bk, key, t, windowMs, max) ==
  IF key \notin DOMAIN bk \/ t - bk[key].windowStart >= windowMs
  THEN [ok |-> TRUE,
        buckets |-> [x \in (DOMAIN bk) \cup {key} |->
                       IF x = key THEN [count |-> 1, windowStart |-> t] ELSE bk[x]]]
  ELSE [ok |-> bk[key].count + 1 < max,
        buckets |-> [bk EXCEPT ![key].count = @ + 1]]

\* allow(key, now): the new buckets and what it returns.
RateLimiter_allow(bk, key, t, windowMs, max) ==
  IF key \notin DOMAIN bk \/ t - bk[key].windowStart >= windowMs
  THEN [ok |-> TRUE,
        buckets |-> [x \in (DOMAIN bk) \cup {key} |->
                       IF x = key THEN [count |-> 1, windowStart |-> t] ELSE bk[x]]]
  ELSE [ok |-> bk[key].count + 1 <= max,
        buckets |-> [bk EXCEPT ![key].count = @ + 1]]

\* A cleanup that deletes every bucket, whatever its age.
RateLimiter_cleanup_Unexpired(bk, t, windowMs) ==
  [x \in { k \in DOMAIN bk : ~(t - bk[k].windowStart >= windowMs * 0) } |-> bk[x]]

\* cleanup(now)
RateLimiter_cleanup(bk, t, windowMs) ==
  [x \in { k \in DOMAIN bk : ~(t - bk[k].windowStart >= windowMs * 2) } |-> bk[x]]

\* ---------------------------------------------------------------- gatekeeper
\* A request header is absent or a string.
NoHeader == [present |-> FALSE, value |-> << >>]
Header(v) == [present |-> TRUE, value |-> v]

\* The upgrade request as verifyClient reads it: the Origin and
\* X-Forwarded-For headers and the socket's remote address ('' when
\* undefined).  The Host header is carried along; the code never reads it.
Request(origin, host, xff, remoteAddress) ==
  [origin |-> origin, host |-> host, xff |-> xff, remoteAddress |-> remoteAddress]

\* s.split(',')
RECURSIVE split(_)
split(s) ==
  IF \A i \in DOMAIN s : s[i] # ","
  THEN <<s>>
  ELSE LET i == CHOOSE j \in DOMAIN s : s[j] = "," /\ \A k \in 1..(j - 1) : s[k] # ","
       IN <<SubSeq(s, 1, i - 1)>> \o split(SubSeq(s, i + 1, Len(s)))

\* (process.env.ALLOWED_ORIGINS || '').split(',').map(s => s.trim()).filter(Boolean)
ParseAllowedOrigins(envValue) ==
  SelectSeq([i \in DOMAIN split(envValue) |-> trim(split(envValue)[i])],
            LAMBDA o : o # << >>)

includes(list, x) == \E i \in DOMAIN list : list[i] = x

getOrigin(req) ==
  IF ~req.origin.present \/ req.origin.value = << >> THEN << >> ELSE req.origin.value

getClientIp(trustProxy, req) ==
  IF trustProxy /\ req.xff.present /\ Len(req.xff.value) > 0
  THEN trim(split(req.xff.value)[1])
  ELSE req.remoteAddress

\* done(result, code, name); `check` (observation) is the check that decided.
done(ok, code, name, check, bk, ip) ==
  [ok |-> ok, code |-> code, name |-> name, check |-> check, buckets |-> bk, ip |-> ip]

\* A gatekeeper that folds case and trims the origin before it looks it up.
verifyClient_Normalized(bk, allowed, trustProxy, req, t) ==
  LET origin == trim(toLowerCase(getOrigin(req))) IN
  IF Len(allowed) > 0 /\ (origin = << >> \/ ~includes(allowed, origin))
  THEN done(FALSE, 403, "Forbidden", "origin", bk, << >>)
  ELSE
    LET ip == getClientIp(trustProxy, req) IN
    IF ip = << >>
    THEN done(FALSE, 403, "Forbidden", "address", bk, ip)
    ELSE
      LET a == RateLimiter_allow(bk, ip, t, IP_RATE_WINDOW_MS, IP_RATE_MAX) IN
      IF ~a.ok
      THEN done(FALSE, 429, "Too Many Requests", "rate", a.buckets, ip)
      ELSE done(TRUE, 0, "", "", a.buckets, ip)

\* A gatekeeper that, without an allowlist, wants a presented origin to be
\* the serving host.
verifyClient_SameOrigin(bk, allowed, trustProxy, req, t) ==
  LET origin == getOrigin(req) IN
  IF \/ Len(allowed) > 0 /\ (origin = << >> \/ ~includes(allowed, origin))
     \/ Len(allowed) = 0 /\ origin # << >> /\ origin # req.host.value
  THEN done(FALSE, 403, "Forbidden", "origin", bk, << >>)
  ELSE
    LET ip == getClientIp(trustProxy, req) IN
    IF ip = << >>
    THEN done(FALSE, 403, "Forbidden", "address", bk, ip)
    ELSE
      LET a == RateLimiter_allow(bk, ip, t, IP_RATE_WINDOW_MS, IP_RATE_MAX) IN
      IF ~a.ok
      THEN done(FALSE, 429, "Too Many Requests", "rate", a.buckets, ip)
      ELSE done(TRUE, 0, "", "", a.buckets, ip)

\* A gatekeeper that answers a rate rejection like an origin rejection.
verifyClient_Uniform(bk, allowed, trustProxy, req, t) ==
  LET origin == getOrigin(req) IN
  IF Len(allowed) > 0 /\ (origin = << >> \/ ~includes(allowed, origin))
  THEN done(FALSE, 403, "Forbidden", "origin", bk, << >>)
  ELSE
    LET ip == getClientIp(trustProxy, req) IN
    IF ip = << >>
    THEN done(FALSE, 403, "Forbidden", "address", bk, ip)
    ELSE
      LET a == RateLimiter_allow(bk, ip, t, IP_RATE_WINDOW_MS, IP_RATE_MAX) IN
      IF ~a.ok
      THEN done(FALSE, 403, "Forbidden", "rate", a.buckets, ip)
      ELSE done(TRUE, 0, "", "", a.buckets, ip)

\* verifyClient(info, done).  Nothing in its try block can throw on a request
\* of this shape, so the catch (400) is never taken.
verifyClient(bk, allowed, trustProxy, req, t) ==
  LET origin == getOrigin(req) IN
  IF Len(allowed) > 0 /\ (origin = << >> \/ ~includes(allowed, origin))
  THEN done(FALSE, 403, "Forbidden", "origin", bk, << >>)
  ELSE
    LET ip == getClientIp(trustProxy, req) IN
    IF ip = << >>
    THEN done(FALSE, 403, "Forbidden", "address", bk, ip)
    ELSE
      LET a == RateLimiter_allow(bk, ip, t, IP_RATE_WINDOW_MS, IP_RATE_MAX) IN
      IF ~a.ok
      THEN done(FALSE, 429, "Too Many Requests", "rate", a.buckets, ip)
      ELSE done(TRUE, 0, "", "", a.buckets, ip)

VARIABLES
  now,         \* Date.now()
  rooms,       \* the Map rooms: normalized code -> [host, guest, createdAt, seenIds]
  clients,     \* the WeakMap clients: ws -> [roomCode, isHost, msgCount, msgWindowStart]
  readyState,  \* ws.readyState; "NONE" before the connection is accepted
  isAlive,     \* ws.isAlive
  wssClients,  \* wss.clients, in insertion order
  last,        \* observation: the handler that ran last, its outcome and the frames it sent
  joinRun,     \* observation: the current run of consecutive join attempts on one room
  dep,         \* observation: per connection, its last departure from a two-peer room
  relayLog,    \* observation: per room, when each fingerprint was last delivered / evicted
  seen,        \* a BoundedSeenIds instance exercised on its own
  seenNow,     \* the clock passed to it
  seenLog,     \* observation: what was done to it
  ALLOWED_ORIGINS,  \* the parsed allowlist
  TRUST_PROXY,      \* process.env.TRUST_PROXY === '1'
  buckets,     \* ipRateLimiter.buckets
  gate         \* observation: the last upgrade request and what verifyClient made of it

vars == <<now, rooms, clients, readyState, isAlive, wssClients, last, joinRun, dep,
          relayLog, seen, seenNow, seenLog, ALLOWED_ORIGINS, TRUST_PROXY, buckets, gate>>

gateVars == <<ALLOWED_ORIGINS, TRUST_PROXY, buckets, gate>>

serverVars == <<now, rooms, clients, readyState, isAlive, wssClients, last, joinRun,
                dep, relayLog>>

seenVars == <<seen, seenNow, seenLog>>

\* ------------------------------------------------------------------- sending
Msg(to, type, room, data, by) ==
  [to |-> to, type |-> type, room |-> room, data |-> data, by |-> by]

\* The part of the world a handler reads and writes while it runs.
World(rms, rs, sent, departed) ==
  [rooms |-> rms, rs |-> rs, sent |-> sent, departed |-> departed]

\* safeSend(ws, obj): nothing is sent to null or to a socket that is not OPEN.
safeSend(W, ws, type, room, data, by) ==
  IF ws # Null /\ W.rs[ws] = "OPEN"
  THEN [W EXCEPT !.sent = Append(@, Msg(ws, type, room, data, by))]
  ELSE W

sendGenericError(W, ws) ==
  IF W.rs[ws] = "OPEN"
  THEN [W EXCEPT !.sent = Append(@, Msg(ws, "error", NoCode, NoData, ws))]
  ELSE W

MapRemove(f, key) == [x \in (DOMAIN f) \ {key} |-> f[x]]

MapSet(f, key, val) == [x \in (DOMAIN f) \cup {key} |-> IF x = key THEN val ELSE f[x]]

\* ------------------------------------------------------------------- cleanup
\* A cleanup that empties the guest slot whenever ws is not the host.
cleanupClient_ElseGuest(W, cl, ws) ==
  IF ws \notin DOMAIN cl \/ cl[ws].roomCode = NoCode THEN W
  ELSE
    LET code == cl[ws].roomCode IN
    IF code \notin DOMAIN W.rooms THEN W
    ELSE
      LET room == W.rooms[code]
          other == IF room.host = ws THEN room.guest ELSE room.host
          W1 == safeSend(W, other, "peer-left", NoCode, NoData, ws)
          room1 == IF room.host = ws THEN [room EXCEPT !.host = Null]
                   ELSE [room EXCEPT !.guest = Null]
      IN IF room1.host = Null /\ room1.guest = Null
         THEN [W1 EXCEPT !.rooms = MapRemove(@, code)]
         ELSE [W1 EXCEPT !.rooms = MapSet(@, code, room1)]

\* A cleanup that never deletes the room.
cleanupClient_NoDelete(W, cl, ws) ==
  IF ws \notin DOMAIN cl \/ cl[ws].roomCode = NoCode THEN W
  ELSE
    LET code == cl[ws].roomCode IN
    IF code \notin DOMAIN W.rooms THEN W
    ELSE
      LET room == W.rooms[code]
          other == IF room.host = ws THEN room.guest ELSE room.host
          W1 == safeSend(W, other, "peer-left", NoCode, NoData, ws)
          room1 == [room EXCEPT !.host = IF @ = ws THEN Null ELSE @,
                                !.guest = IF @ = ws THEN Null ELSE @]
      IN [W1 EXCEPT !.rooms = MapSet(@, code, room1)]

cleanupClient(W, cl, ws) ==
  IF ws \notin DOMAIN cl \/ cl[ws].roomCode = NoCode THEN W
  ELSE
    LET code == cl[ws].roomCode IN
    IF code \notin DOMAIN W.rooms THEN W
    ELSE
      LET room == W.rooms[code]
          other == IF room.host = ws THEN room.guest ELSE room.host
          W1 == safeSend(W, other, "peer-left", NoCode, NoData, ws)
          room1 == [room EXCEPT !.host = IF @ = ws THEN Null ELSE @,
                                !.guest = IF @ = ws THEN Null ELSE @]
          \* observation only: ws left a room that held two connections
          \* while the other one's channel was open
          note == IF /\ room.host # Null /\ room.guest # Null
                     /\ ws \in {room.host, room.guest}
                     /\ other # ws /\ W.rs[other] = "OPEN"
                  THEN <<[d |-> ws, r |-> other, code |-> code]>>
                  ELSE <<>>
          W2 == [W1 EXCEPT !.departed = @ \o note]
      IN IF room1.host = Null /\ room1.guest = Null
         THEN [W2 EXCEPT !.rooms = MapRemove(@, code)]
         ELSE [W2 EXCEPT !.rooms = MapSet(@, code, room1)]

\* A room closure that tells only the host.
cleanupRoom_HostOnly(W, roomCode) ==
  IF roomCode \notin DOMAIN W.rooms THEN W
  ELSE
    LET room == W.rooms[roomCode]
        W1 == safeSend(W, room.host, "room-closed", roomCode, NoData, Null)
    IN [W1 EXCEPT !.rooms = MapRemove(@, roomCode)]

cleanupRoom(W, roomCode) ==
  IF roomCode \notin DOMAIN W.rooms THEN W
  ELSE
    LET room == W.rooms[roomCode]
        W1 == safeSend(W, room.host, "room-closed", roomCode, NoData, Null)
        W2 == safeSend(W1, room.guest, "room-closed", roomCode, NoData, Null)
    IN [W2 EXCEPT !.rooms = MapRemove(@, roomCode)]

\* ------------------------------------------------- message handler: the cases
\* What one run of the message handler leaves behind: the world, the sender's
\* client record, and (observation) which return was taken and on which code.
Result(W, client, outcome, code) ==
  [W |-> W, client |-> client, outcome |-> outcome, code |-> code]

NewRoom(ws, t) == [host |-> ws, guest |-> Null, createdAt |-> t, seenIds |-> <<>>]

\* A create that records the requested code on the requester before it looks
\* the code up.
HandleCreate_AssocFirst(W, c, ws, msg, t) ==
  LET roomCode == normalizeRoomCode(msg.room)
      c1 == [c EXCEPT !.roomCode = roomCode, !.isHost = TRUE]
  IN IF roomCode \in DOMAIN W.rooms
     THEN Result(sendGenericError(W, ws), c1, "conflict", roomCode)
     ELSE Result(safeSend([W EXCEPT !.rooms = MapSet(@, roomCode, NewRoom(ws, t))],
                          ws, "created", roomCode, NoData, ws), c1, "created", roomCode)

\* A create whose error frame for a code in use names the code.
HandleCreate_Detailed(W, c, ws, msg, t) ==
  LET roomCode == normalizeRoomCode(msg.room) IN
  IF ~isValidRoomCode(roomCode)
  THEN Result(sendGenericError(W, ws), c, "invalid", roomCode)
  ELSE IF roomCode \in DOMAIN W.rooms
  THEN Result(safeSend(W, ws, "error", roomCode, NoData, ws), c, "conflict", roomCode)
  ELSE
    LET W1 == [W EXCEPT !.rooms = MapSet(@, roomCode, NewRoom(ws, t))]
        c1 == [c EXCEPT !.roomCode = roomCode, !.isHost = TRUE]
    IN Result(safeSend(W1, ws, "created", roomCode, NoData, ws), c1, "created", roomCode)

HandleCreate(W, c, ws, msg, t) ==
  LET roomCode == normalizeRoomCode(msg.room) IN
  IF ~isValidRoomCode(roomCode)
  THEN Result(sendGenericError(W, ws), c, "invalid", roomCode)
  ELSE IF roomCode \in DOMAIN W.rooms
  THEN Result(sendGenericError(W, ws), c, "conflict", roomCode)
  ELSE
    LET W1 == [W EXCEPT !.rooms = MapSet(@, roomCode, NewRoom(ws, t))]
        c1 == [c EXCEPT !.roomCode = roomCode, !.isHost = TRUE]
    IN Result(safeSend(W1, ws, "created", roomCode, NoData, ws), c1, "created", roomCode)

\* A join that records the requested code on the requester before it looks
\* the room up.
HandleJoin_AssocFirst(W, c, ws, msg) ==
  LET roomCode == normalizeRoomCode(msg.room)
      c1 == [c EXCEPT !.roomCode = roomCode, !.isHost = FALSE]
  IN IF roomCode \notin DOMAIN W.rooms
     THEN Result(sendGenericError(W, ws), c1, "notfound", roomCode)
     ELSE
       LET room == W.rooms[roomCode] IN
       IF room.host = Null \/ W.rs[room.host] # "OPEN"
       THEN Result(sendGenericError(W, ws), c1, "unavailable", roomCode)
       ELSE IF room.guest # Null /\ W.rs[room.guest] = "OPEN"
       THEN Result(sendGenericError(W, ws), c1, "full", roomCode)
       ELSE IF room.host = ws
       THEN Result(sendGenericError(W, ws), c1, "self", roomCode)
       ELSE
         LET W1 == [W EXCEPT !.rooms = MapSet(@, roomCode, [room EXCEPT !.guest = ws])]
             W2 == safeSend(W1, ws, "joined", roomCode, NoData, ws)
             W3 == safeSend(W2, room.host, "peer-joined", NoCode, NoData, ws)
         IN Result(W3, c1, "joined", roomCode)

\* A join that lets the host in as guest.
HandleJoin_NoSelfCheck(W, c, ws, msg) ==
  LET roomCode == normalizeRoomCode(msg.room) IN
  IF roomCode \notin DOMAIN W.rooms
  THEN Result(sendGenericError(W, ws), c, "notfound", roomCode)
  ELSE
    LET room == W.rooms[roomCode] IN
    IF room.host = Null \/ W.rs[room.host] # "OPEN"
    THEN Result(sendGenericError(W, ws), c, "unavailable", roomCode)
    ELSE IF room.guest # Null /\ W.rs[room.guest] = "OPEN"
    THEN Result(sendGenericError(W, ws), c, "full", roomCode)
    ELSE
      LET W1 == [W EXCEPT !.rooms = MapSet(@, roomCode, [room EXCEPT !.guest = ws])]
          c1 == [c EXCEPT !.roomCode = roomCode, !.isHost = FALSE]
          W2 == safeSend(W1, ws, "joined", roomCode, NoData, ws)
          W3 == safeSend(W2, room.host, "peer-joined", NoCode, NoData, ws)
      IN Result(W3, c1, "joined", roomCode)

\* A join that does not look at the guest slot.
HandleJoin_NoFullCheck(W, c, ws, msg) ==
  LET roomCode == normalizeRoomCode(msg.room) IN
  IF roomCode \notin DOMAIN W.rooms
  THEN Result(sendGenericError(W, ws), c, "notfound", roomCode)
  ELSE
    LET room == W.rooms[roomCode] IN
    IF room.host = Null \/ W.rs[room.host] # "OPEN"
    THEN Result(sendGenericError(W, ws), c, "unavailable", roomCode)
    ELSE IF room.host = ws
    THEN Result(sendGenericError(W, ws), c, "self", roomCode)
    ELSE
      LET W1 == [W EXCEPT !.rooms = MapSet(@, roomCode, [room EXCEPT !.guest = ws])]
          c1 == [c EXCEPT !.roomCode = roomCode, !.isHost = FALSE]
          W2 == safeSend(W1, ws, "joined", roomCode, NoData, ws)
          W3 == safeSend(W2, room.host, "peer-joined", NoCode, NoData, ws)
      IN Result(W3, c1, "joined", roomCode)

HandleJoin(W, c, ws, msg) ==
  LET roomCode == normalizeRoomCode(msg.room) IN
  IF roomCode \notin DOMAIN W.rooms
  THEN Result(sendGenericError(W, ws), c, "notfound", roomCode)
  ELSE
    LET room == W.rooms[roomCode] IN
    IF room.host = Null \/ W.rs[room.host] # "OPEN"
    THEN Result(sendGenericError(W, ws), c, "unavailable", roomCode)
    ELSE IF room.guest # Null /\ W.rs[room.guest] = "OPEN"
    THEN Result(sendGenericError(W, ws), c, "full", roomCode)
    ELSE IF room.host = ws
    THEN Result(sendGenericError(W, ws), c, "self", roomCode)
    ELSE
      LET W1 == [W EXCEPT !.rooms = MapSet(@, roomCode, [room EXCEPT !.guest = ws])]
          c1 == [c EXCEPT !.roomCode = roomCode, !.isHost = FALSE]
          W2 == safeSend(W1, ws, "joined", roomCode, NoData, ws)
          W3 == safeSend(W2, room.host, "peer-joined", NoCode, NoData, ws)
      IN Result(W3, c1, "joined", roomCode)

\* A signal handler that records the fingerprint only when there is an open
\* peer to deliver to.
HandleSignal_RecordOnDelivery(W, c, ws, msg, t) ==
  IF c.roomCode = NoCode
  THEN Result(sendGenericError(W, ws), c, "notinroom", NoCode)
  ELSE IF c.roomCode \notin DOMAIN W.rooms
  THEN Result(sendGenericError(W, ws), c, "noroom", c.roomCode)
  ELSE
    LET room == W.rooms[c.roomCode]
        id == sha256Base64Url22(msg.data)
        h == BoundedSeenIds_has(room.seenIds, id, t, SEEN_TTL_MS)
    IN IF h.found
       THEN Result([W EXCEPT !.rooms = MapSet(@, c.roomCode, [room EXCEPT !.seenIds = h.map])],
                   c, "duplicate", c.roomCode)
       ELSE
         LET target == IF room.host = ws THEN room.guest ELSE room.host
             m == IF target # Null /\ W.rs[target] = "OPEN"
                  THEN BoundedSeenIds_add(h.map, id, t, SEEN_MAX, SEEN_TTL_MS)
                  ELSE h.map
             W1 == [W EXCEPT !.rooms = MapSet(@, c.roomCode, [room EXCEPT !.seenIds = m])]
         IN Result(safeSend(W1, target, "signal", NoCode, msg.data, ws), c,
                   "relayed", c.roomCode)

\* A signal handler that says nothing when the sender's room is gone.
HandleSignal_SilentNoRoom(W, c, ws, msg, t) ==
  IF c.roomCode = NoCode
  THEN Result(sendGenericError(W, ws), c, "notinroom", NoCode)
  ELSE IF c.roomCode \notin DOMAIN W.rooms
  THEN Result(W, c, "noroom", c.roomCode)
  ELSE
    LET room == W.rooms[c.roomCode]
        id == sha256Base64Url22(msg.data)
        h == BoundedSeenIds_has(room.seenIds, id, t, SEEN_TTL_MS)
    IN IF h.found
       THEN Result([W EXCEPT !.rooms = MapSet(@, c.roomCode, [room EXCEPT !.seenIds = h.map])],
                   c, "duplicate", c.roomCode)
       ELSE
         LET m == BoundedSeenIds_add(h.map, id, t, SEEN_MAX, SEEN_TTL_MS)
             W1 == [W EXCEPT !.rooms = MapSet(@, c.roomCode, [room EXCEPT !.seenIds = m])]
             target == IF room.host = ws THEN room.guest ELSE room.host
         IN Result(safeSend(W1, target, "signal", NoCode, msg.data, ws), c,
                   "relayed", c.roomCode)

HandleSignal(W, c, ws, msg, t) ==
  IF c.roomCode = NoCode
  THEN Result(sendGenericError(W, ws), c, "notinroom", NoCode)
  ELSE IF c.roomCode \notin DOMAIN W.rooms
  THEN Result(sendGenericError(W, ws), c, "noroom", c.roomCode)
  ELSE
    LET room == W.rooms[c.roomCode]
        id == sha256Base64Url22(msg.data)
        h == BoundedSeenIds_has(room.seenIds, id, t, SEEN_TTL_MS)
    IN IF h.found
       THEN Result([W EXCEPT !.rooms = MapSet(@, c.roomCode, [room EXCEPT !.seenIds = h.map])],
                   c, "duplicate", c.roomCode)
       ELSE
         LET m == BoundedSeenIds_add(h.map, id, t, SEEN_MAX, SEEN_TTL_MS)
             W1 == [W EXCEPT !.rooms = MapSet(@, c.roomCode, [room EXCEPT !.seenIds = m])]
             target == IF room.host = ws THEN room.guest ELSE room.host
         IN Result(safeSend(W1, target, "signal", NoCode, msg.data, ws), c,
                   "relayed", c.roomCode)

HandleLeave(W, c, ws) ==
  LET W1 == cleanupClient(W, (ws :> c), ws)
      c1 == [c EXCEPT !.roomCode = NoCode]
  IN Result(safeSend(W1, ws, "left", NoCode, NoData, ws), c1, "left", c.roomCode)

Dispatch(W, c, ws, msg, t) ==
  CASE msg.type = "create" -> HandleCreate(W, c, ws, msg, t)
    [] msg.type = "join" -> HandleJoin(W, c, ws, msg)
    [] msg.type = "signal" -> HandleSignal(W, c, ws, msg, t)
    [] msg.type = "leave" -> HandleLeave(W, c, ws)
    [] msg.type = "pong" -> Result(W, c, "pong", NoCode)
    [] OTHER -> Result(sendGenericError(W, ws), c, "unknown", NoCode)

\* A rate limit whose window never restarts.
RateCount_NoReset(c, t) == [c EXCEPT !.msgCount = @ + 1]

\* The per-connection rate limit at the head of the message handler.
RateCount(c, t) ==
  LET reset == t - c.msgWindowStart >= CONN_RATE_WINDOW_MS IN
  [c EXCEPT !.msgWindowStart = IF reset THEN t ELSE @,
            !.msgCount = (IF reset THEN 0 ELSE @) + 1]

\* A message handler that parses and dispatches the frame before it looks at
\* the rate counter.
MessageResult_RateAfterDispatch(rms, cl, rs, ws, f, t) ==
  LET c1 == RateCount(cl[ws], t)
      W0 == World(rms, rs, <<>>, <<>>)
      r == IF ~f.wellFormed
           THEN Result(sendGenericError(W0, ws), c1, "malformed", NoCode)
           ELSE IF ~validateMessageShape(f)
           THEN Result(sendGenericError(W0, ws), c1, "invalid", NoCode)
           ELSE Dispatch(W0, c1, ws, f, t)
  IN IF c1.msgCount > CONN_RATE_MAX
     THEN Result(sendGenericError(r.W, ws), r.client, "rate", NoCode)
     ELSE r

\* ws.on('message'), whole: rate limit, parse, shape check, dispatch.
MessageResult(rms, cl, rs, ws, f, t) ==
  LET c1 == RateCount(cl[ws], t)
      W0 == World(rms, rs, <<>>, <<>>)
  IN IF c1.msgCount > CONN_RATE_MAX
     THEN Result(sendGenericError(W0, ws), c1, "rate", NoCode)
     ELSE IF ~f.wellFormed
     THEN Result(sendGenericError(W0, ws), c1, "malformed", NoCode)
     ELSE IF ~validateMessageShape(f)
     THEN Result(sendGenericError(W0, ws), c1, "invalid", NoCode)
     ELSE Dispatch(W0, c1, ws, f, t)

\* ------------------------------------------------------------- observations
\* None of these is read by a handler; they record what happened.
Event(op, ws, code, data, outcome, sent) ==
  [op |-> op, ws |-> ws, code |-> code, data |-> data, outcome |-> outcome, sent |-> sent]

NoRun == [code |-> NoCode, hostOpen |-> FALSE, tries |-> <<>>]

NoDep == [r |-> Null, n |-> 0]

Fps == { sha256Base64Url22(d) : d \in { x \in Payloads : x.kind \in {"sdp", "candidate"} } }

\* Per fingerprint: when it was last delivered to a peer, whether that
\* delivery came more than the TTL after the one before, when it was last
\* looked up or added, and whether the size bound has evicted it since it was
\* last added.
FreshLog ==
  [k \in Fps |-> [delivered |-> -1, again |-> FALSE, relayed |-> -1, evicted |-> FALSE]]

Count(sq, P(_)) == Cardinality({ i \in DOMAIN sq : P(sq[i]) })

\* joinRun after a join frame of ws was dispatched on `code` with outcome `out`.
JoinRunNext(ws, code, out) ==
  LET try == [ws |-> ws, open |-> readyState[ws] = "OPEN",
              self |-> code \in DOMAIN rooms /\ rooms[code].host = ws, out |-> out]
      cont == /\ joinRun.code = code
              /\ joinRun.tries # <<>>
              /\ \A i \in DOMAIN joinRun.tries : joinRun.tries[i].ws # ws
      start == /\ code \in DOMAIN rooms
               /\ rooms[code].host # Null
               /\ rooms[code].guest = Null
  IN IF cont THEN [joinRun EXCEPT !.tries = Append(@, try)]
     ELSE IF start
     THEN [code |-> code, hostOpen |-> readyState[rooms[code].host] = "OPEN",
           tries |-> <<try>>]
     ELSE NoRun

\* dep after a handler that left the world W; `entered` is the set of
\* connections that the handler put into a room.
DepNext(W, entered) ==
  [d \in Conns |->
     LET left(m) == m.type = "peer-left" /\ m.by = d
         here == { i \in DOMAIN W.departed : W.departed[i].d = d }
     IN IF d \in entered THEN NoDep
        ELSE IF here # {}
        THEN LET r == W.departed[CHOOSE i \in here : TRUE].r
                 toR(m) == left(m) /\ m.to = r
             IN [r |-> r, n |-> Count(W.sent, toR)]
        ELSE IF dep[d].r # Null
        THEN LET toR(m) == left(m) /\ m.to = dep[d].r
                 n1 == dep[d].n + Count(W.sent, toR)
             IN [dep[d] EXCEPT !.n = IF n1 > 2 THEN 2 ELSE n1]
        ELSE dep[d]]

\* relayLog restricted to the rooms that remain, fresh for a room just created.
LogCarry(rms1) ==
  [c \in DOMAIN rms1 |-> IF c \in DOMAIN rooms THEN relayLog[c] ELSE FreshLog]

\* relayLog of a room after a signal with fingerprint id was looked up (and,
\* when not found, added) at time t.
SignalLog(log, m, id, t, found, wasSent) ==
  IF found THEN [log EXCEPT ![id].relayed = t]
  ELSE
    LET m1 == BoundedSeenIds_purgeExpired(m, t, SEEN_TTL_MS)
        m2 == Append(MapDelete(m1, id), [k |-> id, ts |-> t])
        ev == Keys(m2) \ Keys(EvictOldest(m2, SEEN_MAX))
    IN [k \in Fps |->
          IF k = id
          THEN [delivered |-> IF wasSent THEN t ELSE log[k].delivered,
                again |-> /\ wasSent
                          /\ log[k].delivered >= 0
                          /\ t - log[k].delivered > SEEN_TTL_MS,
                relayed |-> t, evicted |-> k \in ev]
          ELSE [log[k] EXCEPT !.evicted = @ \/ k \in ev]]

FreshSeenLog ==
  [op |-> "init", key |-> << >>, found |-> FALSE,
   marks |-> [k \in Fps |-> [added |-> -1, touched |-> -1, evicted |-> FALSE]]]

\* ------------------------------------------------------------------ actions
NoRequest == Request(NoHeader, NoHeader, NoHeader, << >>)

NoGate ==
  [req |-> NoRequest, ok |-> FALSE, code |-> 0, name |-> "", check |-> "",
   ip |-> << >>, admits |-> << >>, kept |-> << >>, keptOk |-> FALSE]

\* The state after start with the given allowlist and proxy setting.
InitWith(allowed, trustProxy) ==
  /\ ALLOWED_ORIGINS = allowed
  /\ TRUST_PROXY = trustProxy
  /\ buckets = << >>
  /\ gate = NoGate
  /\ now = 0
  /\ rooms = << >>
  /\ clients = << >>
  /\ readyState = [c \in Conns |-> "NONE"]
  /\ isAlive = [c \in Conns |-> FALSE]
  /\ wssClients = << >>
  /\ last = Event("init", Null, NoCode, NoData, "", << >>)
  /\ joinRun = NoRun
  /\ dep = [c \in Conns |-> NoDep]
  /\ relayLog = << >>
  /\ seen = << >>
  /\ seenNow = 0
  /\ seenLog = FreshSeenLog

\* Neither ALLOWED_ORIGINS nor TRUST_PROXY is set in the environment.
Init == InitWith(ParseAllowedOrigins(<< >>), FALSE)

\* The body of wss.on('connection') for the socket ws, with the limiter's
\* buckets as the upgrade left them; ev is the observation to record.
ConnectionHandler(ws, bk, ev) ==
  /\ readyState[ws] = "NONE"
  /\ \A c \in Conns : c < ws => readyState[c] # "NONE"
  /\ clients' = MapSet(clients, ws, [roomCode |-> NoCode, isHost |-> FALSE,
                                     msgCount |-> 0, msgWindowStart |-> now])
  /\ readyState' = [readyState EXCEPT ![ws] = "OPEN"]
  /\ isAlive' = [isAlive EXCEPT ![ws] = TRUE]
  /\ wssClients' = Append(wssClients, ws)
  /\ buckets' = RateLimiter_cleanup(bk, now, IP_RATE_WINDOW_MS)
  /\ last' = ev
  /\ joinRun' = NoRun
  /\ UNCHANGED <<now, rooms, dep, relayLog>>
  /\ UNCHANGED seenVars
  /\ UNCHANGED <<ALLOWED_ORIGINS, TRUST_PROXY>>

\* wss.on('connection') for an upgrade that was admitted.  Connections are
\* numbered in the order of acceptance.
Connection(ws) ==
  /\ ConnectionHandler(ws, buckets, Event("connection", ws, NoCode, NoData, "ok", << >>))
  /\ UNCHANGED gate

\* gate.admits after verifyClient returned v: per address, the window its
\* bucket is in and the number of requests admitted in that window.
AdmitsNext(v) ==
  IF v.check \in {"origin", "address"} THEN gate.admits
  ELSE
    LET start == v.buckets[v.ip].windowStart
        sameWindow == /\ v.ip \in DOMAIN gate.admits
                      /\ v.ip \in DOMAIN buckets
                      /\ buckets[v.ip].windowStart = start
                      /\ v.buckets[v.ip].count > 1
        before == IF sameWindow THEN gate.admits[v.ip].n ELSE 0
    IN MapSet(gate.admits, v.ip,
              [start |-> start, n |-> before + (IF v.ok THEN 1 ELSE 0)])

\* The same allow call made on a limiter whose cleanup is never called: its
\* buckets (kept) and its answer (keptOk).
KeptNext(v) ==
  IF v.check \in {"origin", "address"}
  THEN [ok |-> FALSE, buckets |-> gate.kept]
  ELSE RateLimiter_allow(gate.kept, v.ip, now, IP_RATE_WINDOW_MS, IP_RATE_MAX)

\* An upgrade request: verifyClient, and for an admitted request the
\* 'connection' handler of the new socket.
Upgrade(req) ==
  LET v == verifyClient(buckets, ALLOWED_ORIGINS, TRUST_PROXY, req, now)
      free == { c \in Conns : readyState[c] = "NONE" }
  IN /\ \A ip \in DOMAIN v.buckets : v.buckets[ip].count <= IP_RATE_MAX + MaxExcess
     /\ gate' = [req |-> req, ok |-> v.ok, code |-> v.code, name |-> v.name,
                 check |-> v.check, ip |-> v.ip, admits |-> AdmitsNext(v),
                 kept |-> KeptNext(v).buckets, keptOk |-> KeptNext(v).ok]
     /\ IF v.ok
        THEN /\ free # {}
             /\ LET ws == CHOOSE c \in free : \A d \in free : c <= d
                IN ConnectionHandler(ws, v.buckets,
                                     Event("upgrade", ws, NoCode, NoData, "admitted", << >>))
        ELSE /\ buckets' = v.buckets
             /\ last' = Event("upgrade", Null, NoCode, NoData, "rejected", << >>)
             /\ joinRun' = NoRun
             /\ UNCHANGED <<now, rooms, clients, readyState, isAlive, wssClients, dep,
                            relayLog>>
             /\ UNCHANGED seenVars
             /\ UNCHANGED <<ALLOWED_ORIGINS, TRUST_PROXY>>

\* ws.on('message') for one frame f of connection ws.
OnMessage(ws, f) ==
  /\ ws \in DOMAIN clients
  /\ readyState[ws] \in {"OPEN", "CLOSING"}
  /\ LET r == MessageResult(rooms, clients, readyState, ws, f, now)
         dispatched == r.outcome \notin {"rate", "malformed", "invalid", "unknown"}
         isSignal(m) == m.type = "signal"
     IN /\ r.client.msgCount <= CONN_RATE_MAX + MaxExcess
        /\ rooms' = r.W.rooms
        /\ clients' = [clients EXCEPT ![ws] = r.client]
        /\ last' = Event(IF dispatched THEN f.type ELSE "rejected", ws, r.code,
                         f.data, r.outcome, r.W.sent)
        /\ joinRun' = IF dispatched /\ f.type = "join"
                      THEN JoinRunNext(ws, r.code, r.outcome) ELSE NoRun
        /\ dep' = DepNext(r.W, IF r.outcome \in {"created", "joined"} THEN {ws} ELSE {})
        /\ relayLog' =
             IF r.outcome \in {"duplicate", "relayed"}
             THEN [LogCarry(r.W.rooms) EXCEPT
                     ![r.code] = SignalLog(@, rooms[r.code].seenIds,
                                           sha256Base64Url22(f.data), now,
                                           r.outcome = "duplicate",
                                           Count(r.W.sent, isSignal) > 0)]
             ELSE LogCarry(r.W.rooms)
  /\ UNCHANGED <<now, readyState, isAlive, wssClients>>
  /\ UNCHANGED seenVars
  /\ UNCHANGED gateVars

\* The peer's close frame or a socket error: the socket stops being OPEN some
\* time before its 'close' event is delivered.
PeerClosing(ws) ==
  /\ readyState[ws] = "OPEN"
  /\ readyState' = [readyState EXCEPT ![ws] = "CLOSING"]
  /\ last' = Event("closing", ws, NoCode, NoData, "ok", << >>)
  /\ joinRun' = NoRun
  /\ UNCHANGED <<now, rooms, clients, isAlive, wssClients, dep, relayLog>>
  /\ UNCHANGED seenVars
  /\ UNCHANGED gateVars

Without(sq, x) == SelectSeq(sq, LAMBDA y : y # x)

\* ws.on('close')
OnClose(ws) ==
  /\ readyState[ws] \in {"OPEN", "CLOSING"}
  /\ LET rs1 == [readyState EXCEPT ![ws] = "CLOSED"]
         W == cleanupClient(World(rooms, rs1, << >>, << >>), clients, ws)
     IN /\ rooms' = W.rooms
        /\ readyState' = rs1
        /\ last' = Event("close", ws, clients[ws].roomCode, NoData,
                         IF W.rooms = rooms THEN "same" ELSE "changed", W.sent)
        /\ dep' = DepNext(W, {})
        /\ relayLog' = LogCarry(W.rooms)
  /\ wssClients' = Without(wssClients, ws)
  /\ joinRun' = NoRun
  /\ UNCHANGED <<now, clients, isAlive>>
  /\ UNCHANGED seenVars
  /\ UNCHANGED gateVars

\* A transport-level pong that leaves the flag as it is.
OnPong_Ignored(ws) ==
  /\ readyState[ws] \in {"OPEN", "CLOSING"}
  /\ isAlive' = isAlive
  /\ last' = Event("ws-pong", ws, NoCode, NoData, "ok", << >>)
  /\ joinRun' = NoRun
  /\ UNCHANGED <<now, rooms, clients, readyState, wssClients, dep, relayLog>>
  /\ UNCHANGED seenVars
  /\ UNCHANGED gateVars

\* ws.on('pong'): a transport-level pong
OnPong(ws) ==
  /\ readyState[ws] \in {"OPEN", "CLOSING"}
  /\ isAlive' = [isAlive EXCEPT ![ws] = TRUE]
  /\ last' = Event("ws-pong", ws, NoCode, NoData, "ok", << >>)
  /\ joinRun' = NoRun
  /\ UNCHANGED <<now, rooms, clients, readyState, wssClients, dep, relayLog>>
  /\ UNCHANGED seenVars
  /\ UNCHANGED gateVars

\* A heartbeat that terminates a silent socket without its room cleanup.
RECURSIVE heartbeatLoop_NoCleanup(_, _, _, _)
heartbeatLoop_NoCleanup(W, alive, cl, list) ==
  IF list = << >> THEN [W |-> W, alive |-> alive]
  ELSE
    LET ws == Head(list) IN
    IF alive[ws] = FALSE
    THEN heartbeatLoop_NoCleanup([W EXCEPT !.rs[ws] = "CLOSING"], alive, cl, Tail(list))
    ELSE heartbeatLoop_NoCleanup(W, [alive EXCEPT ![ws] = FALSE], cl, Tail(list))

\* A heartbeat that probes a silent socket again instead of terminating it.
RECURSIVE heartbeatLoop_Tolerant(_, _, _, _)
heartbeatLoop_Tolerant(W, alive, cl, list) ==
  IF list = << >> THEN [W |-> W, alive |-> alive]
  ELSE heartbeatLoop_Tolerant(W, [alive EXCEPT ![Head(list)] = FALSE], cl, Tail(list))

\* The body of the heartbeat callback over wss.clients, from `list` on.
RECURSIVE heartbeatLoop(_, _, _, _)
heartbeatLoop(W, alive, cl, list) ==
  IF list = << >> THEN [W |-> W, alive |-> alive]
  ELSE
    LET ws == Head(list) IN
    IF alive[ws] = FALSE
    THEN heartbeatLoop([cleanupClient(W, cl, ws) EXCEPT !.rs[ws] = "CLOSING"],
                       alive, cl, Tail(list))
    ELSE heartbeatLoop(W, [alive EXCEPT ![ws] = FALSE], cl, Tail(list))

\* heartbeatInterval
Heartbeat ==
  /\ wssClients # << >>
  /\ LET h == heartbeatLoop(World(rooms, readyState, << >>, << >>), isAlive,
                            clients, wssClients)
     IN /\ rooms' = h.W.rooms
        /\ readyState' = h.W.rs
        /\ isAlive' = h.alive
        /\ last' = Event("heartbeat", Null, NoCode, NoData, "ok", h.W.sent)
        /\ dep' = DepNext(h.W, {})
        /\ relayLog' = LogCarry(h.W.rooms)
  /\ joinRun' = NoRun
  /\ UNCHANGED <<now, clients, wssClients>>
  /\ UNCHANGED seenVars
  /\ UNCHANGED gateVars

\* A sweep that closes rooms by age only.
RECURSIVE sweepLoop_AgeOnly(_, _, _)
sweepLoop_AgeOnly(W, codes, t) ==
  IF codes = {} THEN W
  ELSE
    LET code == CHOOSE c \in codes : TRUE
        room == W.rooms[code]
        W1 == IF t - room.createdAt > MAX_ROOM_AGE_MS THEN cleanupRoom(W, code) ELSE W
    IN sweepLoop_AgeOnly(W1, codes \ {code}, t)

\* The body of the room sweep over the rooms Map.
RECURSIVE sweepLoop(_, _, _)
sweepLoop(W, codes, t) ==
  IF codes = {} THEN W
  ELSE
    LET code == CHOOSE c \in codes : TRUE
        room == W.rooms[code]
        hostAlive == room.host # Null /\ W.rs[room.host] = "OPEN"
        guestAlive == room.guest # Null /\ W.rs[room.guest] = "OPEN"
        W1 == IF t - room.createdAt > MAX_ROOM_AGE_MS THEN cleanupRoom(W, code)
              ELSE IF ~hostAlive /\ ~guestAlive
              THEN [W EXCEPT !.rooms = MapRemove(@, code)]
              ELSE W
    IN sweepLoop(W1, codes \ {code}, t)

\* roomCleanupInterval
RoomCleanup ==
  /\ LET W == sweepLoop(World(rooms, readyState, << >>, << >>), DOMAIN rooms, now)
     IN /\ rooms' = W.rooms
        /\ last' = Event("sweep", Null, NoCode, NoData, "ok", W.sent)
        /\ relayLog' = LogCarry(W.rooms)
  /\ buckets' = RateLimiter_cleanup(buckets, now, IP_RATE_WINDOW_MS)
  /\ joinRun' = NoRun
  /\ UNCHANGED <<now, clients, readyState, isAlive, wssClients, dep>>
  /\ UNCHANGED seenVars
  /\ UNCHANGED <<ALLOWED_ORIGINS, TRUST_PROXY, gate>>

\* The clock advances.
Tick ==
  /\ now < MaxTime
  /\ now' = now + 1
  /\ last' = Event("tick", Null, NoCode, NoData, "ok", << >>)
  /\ joinRun' = NoRun
  /\ UNCHANGED <<rooms, clients, readyState, isAlive, wssClients, dep, relayLog>>
  /\ UNCHANGED seenVars
  /\ UNCHANGED gateVars

\* seen.has(key, seenNow) on the instance exercised on its own
SeenHas(key) ==
  /\ LET h == BoundedSeenIds_has(seen, key, seenNow, SEEN_TTL_MS) IN
     /\ seen' = h.map
     /\ seenLog' = [op |-> "has", key |-> key, found |-> h.found,
                    marks |-> IF h.found
                              THEN [seenLog.marks EXCEPT ![key].touched = seenNow]
                              ELSE seenLog.marks]
  /\ UNCHANGED seenNow
  /\ UNCHANGED serverVars
  /\ UNCHANGED gateVars

\* seen.add(key, seenNow)
SeenAdd(key) ==
  /\ LET m1 == BoundedSeenIds_purgeExpired(seen, seenNow, SEEN_TTL_MS)
         m2 == Append(MapDelete(m1, key), [k |-> key, ts |-> seenNow])
         m3 == BoundedSeenIds_add(seen, key, seenNow, SEEN_MAX, SEEN_TTL_MS)
         ev == Keys(m2) \ Keys(m3)
     IN /\ seen' = m3
        /\ seenLog' = [op |-> "add", key |-> key, found |-> FALSE,
                       marks |-> [k \in Fps |->
                          IF k = key
                          THEN [added |-> seenNow, touched |-> seenNow, evicted |-> k \in ev]
                          ELSE [seenLog.marks[k] EXCEPT !.evicted = @ \/ k \in ev]]]
  /\ UNCHANGED seenNow
  /\ UNCHANGED serverVars
  /\ UNCHANGED gateVars

\* Its clock advances.
SeenTick ==
  /\ seenNow < MaxTime
  /\ seenNow' = seenNow + 1
  /\ seenLog' = [seenLog EXCEPT !.op = "tick"]
  /\ UNCHANGED seen
  /\ UNCHANGED serverVars
  /\ UNCHANGED gateVars

\* The frames a client may send.
Frames(codes, payloads) ==
  {Garbage}
    \cup { Frame(t, TRUE, r, NoData) : t \in {"create", "join"}, r \in codes }
    \cup { Frame("create", FALSE, NoCode, NoData) }
    \cup { Frame("signal", FALSE, NoCode, d) : d \in payloads \cup {NoData} }
    \cup { Frame(t, FALSE, NoCode, NoData) : t \in {"leave", "pong", "bogus"} }

\* The upgrade requests a client may send.
Origins == { NoHeader, Header(<< >>), Header(<<"a">>), Header(<<"A">>), Header(<<"b">>) }

Forwarded == { NoHeader, Header(<< >>), Header(<<" ", "2", ",", "1">>), Header(<<",", "1">>) }

Addresses == { << >>, <<"1">>, <<"2">> }

Requests ==
  { Request(o, Header(<<"a">>), x, r) : o \in Origins, x \in Forwarded, r \in Addresses }

\* Values of ALLOWED_ORIGINS in the environment ('' when unset).
AllowedEnv == { << >>, <<"a">>, <<" ", "a", ",", " ", ",", "b">> }

Next ==
  \/ \E req \in Requests : Upgrade(req)
  \/ \E ws \in Conns, f \in Frames(RawCodes, Payloads) : OnMessage(ws, f)
  \/ \E ws \in Conns : PeerClosing(ws)
  \/ \E ws \in Conns : OnClose(ws)
  \/ \E ws \in Conns : OnPong(ws)
  \/ Heartbeat
  \/ RoomCleanup
  \/ Tick

Spec == Init /\ [][Next]_vars

\* ------------------------------------------------- focused specifications
\* Each one runs the same handlers from the same initial state on a smaller
\* cast of connections and a smaller menu of frames.
CreateA == Frame("create", TRUE, <<"A", " ">>, NoData)
CreateB == Frame("create", TRUE, <<" ", "b">>, NoData)
JoinA == Frame("join", TRUE, <<"a">>, NoData)
JoinB == Frame("join", TRUE, <<" ", "b">>, NoData)
Leave == Frame("leave", FALSE, NoCode, NoData)

RoomFrames == {CreateA, CreateB, JoinA, JoinB, Leave}

\* Two connections, two room codes: create, join, leave, closing and close.
NextRooms ==
  \/ \E ws \in {1, 2} : Connection(ws)
  \/ \E ws \in {1, 2}, f \in RoomFrames : OnMessage(ws, f)
  \/ \E ws \in {1, 2} : PeerClosing(ws)
  \/ \E ws \in {1, 2} : OnClose(ws)

SpecRooms == Init /\ [][NextRooms]_vars

\* Three connections, one room code: the first connection creates, all join.
NextJoin ==
  \/ \E ws \in Conns : Connection(ws)
  \/ OnMessage(1, CreateA)
  \/ \E ws \in Conns : OnMessage(ws, JoinA)
  \/ \E ws \in Conns : PeerClosing(ws)
  \/ \E ws \in Conns : OnClose(ws)

SpecJoin == Init /\ [][NextJoin]_vars

Signal(d) == Frame("signal", FALSE, NoCode, d)
Sdp1 == [kind |-> "sdp", body |-> 1]
Sdp2 == [kind |-> "sdp", body |-> 2]
Cand1 == [kind |-> "candidate", body |-> 1]

\* Two connections, one room code, the clock and the room sweep.
NextSweep ==
  \/ \E ws \in {1, 2} : Connection(ws)
  \/ \E ws \in {1, 2}, f \in {CreateA, JoinA, Signal(Sdp1)} : OnMessage(ws, f)
  \/ RoomCleanup
  \/ Tick

SpecSweep == Init /\ [][NextSweep]_vars

\* Two connections, one room code, the heartbeat and the ways to go away.
NextHeartbeat ==
  \/ \E ws \in {1, 2} : Connection(ws)
  \/ \E ws \in {1, 2}, f \in {CreateA, JoinA, Leave} : OnMessage(ws, f)
  \/ \E ws \in {1, 2} : OnPong(ws)
  \/ \E ws \in {1, 2} : PeerClosing(ws)
  \/ \E ws \in {1, 2} : OnClose(ws)
  \/ Heartbeat

SpecHeartbeat == Init /\ [][NextHeartbeat]_vars

\* Two connections, one room code, three payloads sent by the host, and the
\* clock for as long as everything relayed is still within the TTL.
NextSignal ==
  \/ \E ws \in {1, 2} : Connection(ws)
  \/ OnMessage(1, CreateA)
  \/ OnMessage(2, JoinA)
  \/ \E d \in {Sdp1, Sdp2, Cand1} : OnMessage(1, Signal(d))
  \/ (now < SEEN_TTL_MS /\ Tick)

SpecSignal == Init /\ [][NextSignal]_vars

\* Two connections, one room code, one payload sent by the host, and the clock.
NextResend ==
  \/ \E ws \in {1, 2} : Connection(ws)
  \/ OnMessage(1, CreateA)
  \/ OnMessage(2, JoinA)
  \/ OnMessage(1, Signal(Sdp1))
  \/ Tick

SpecResend == Init /\ [][NextResend]_vars

\* Two connections, one room, sockets that stop being open, the clock and the
\* room sweep.
NextReaper ==
  \/ \E ws \in {1, 2} : Connection(ws)
  \/ OnMessage(1, CreateA)
  \/ OnMessage(2, JoinA)
  \/ \E ws \in {1, 2} : PeerClosing(ws)
  \/ RoomCleanup
  \/ Tick

SpecReaper == Init /\ [][NextReaper]_vars

\* A BoundedSeenIds instance on its own: has and add at non-decreasing times.
NextSeen ==
  \/ \E key \in Fps : SeenHas(key)
  \/ \E key \in Fps : SeenAdd(key)
  \/ SeenTick

SpecSeen == Init /\ [][NextSeen]_vars

\* ------------------------------------------------------------------- claims
TwoPeers(room) == room.host # Null /\ room.guest # Null
OnePeer(room) == room.host # Null /\ room.guest = Null

ErrorTo(ws) == Msg(ws, "error", NoCode, NoData, ws)

FirstOnlyJoins ==
  /\ joinRun.tries[1].out = "joined"
  /\ \A i \in 2..Len(joinRun.tries) : joinRun.tries[i].out = "full"

\* C1 (as stated): of any run of consecutive join attempts by distinct
\* connections, none of them the host, on a room with a host and no guest,
\* the first succeeds and every other one is rejected as room-full.
C1_AnyRun ==
  ( /\ joinRun.tries # << >>
    /\ \A i \in DOMAIN joinRun.tries : ~joinRun.tries[i].self )
  => FirstOnlyJoins

\* C1 (amended): the same, for a room whose host's channel is open and for
\* attempts by connections whose own channels are open.
C1_OpenRun ==
  ( /\ joinRun.tries # << >>
    /\ joinRun.hostOpen
    /\ \A i \in DOMAIN joinRun.tries : joinRun.tries[i].open /\ ~joinRun.tries[i].self )
  => FirstOnlyJoins

C1_Witness ==
  /\ Len(joinRun.tries) >= 2
  /\ joinRun.hostOpen
  /\ \A i \in DOMAIN joinRun.tries : joinRun.tries[i].open /\ ~joinRun.tries[i].self

\* C2: a create whose normalized code is already in the registry is answered
\* with the generic error and changes neither the registry nor the
\* requester's room association.
C2_ConflictNoEffect ==
  [][ \A ws \in Conns :
        (last'.op = "create" /\ last'.ws = ws /\ last'.code \in DOMAIN rooms)
        => /\ last'.outcome = "conflict"
           /\ rooms' = rooms
           /\ clients'[ws].roomCode = clients[ws].roomCode
           /\ clients'[ws].isHost = clients[ws].isHost
           /\ last'.sent = IF readyState[ws] = "OPEN" THEN <<ErrorTo(ws)>> ELSE << >> ]_vars

C2_Witness ==
  /\ last.op = "create"
  /\ last.outcome = "conflict"
  /\ last.sent = <<ErrorTo(last.ws)>>
  /\ rooms[last.code].host # last.ws
  /\ clients[last.ws].roomCode \notin {NoCode, last.code}

\* C4: when one occupant of a room holding two connections leaves or closes,
\* the room stays in the registry with a host and no guest.
C4_BackToOnePeer ==
  [][ \A code \in DOMAIN rooms :
        ( /\ TwoPeers(rooms[code])
          /\ last'.op \in {"leave", "close"}
          /\ last'.ws \in {rooms[code].host, rooms[code].guest} )
        => (code \in DOMAIN rooms' /\ OnePeer(rooms'[code])) ]_vars

\* C6: when the only occupant of a room with a host and no guest leaves or
\* closes, the room is removed in that step; a join on a code that is not in
\* the registry is rejected as not found.
C6_SoleOccupantRemoves ==
  [][ /\ \A code \in DOMAIN rooms :
           ( /\ OnePeer(rooms[code])
             /\ last'.op \in {"leave", "close"}
             /\ last'.ws = rooms[code].host )
           => code \notin DOMAIN rooms'
      /\ (last'.op = "join" /\ last'.code \notin DOMAIN rooms)
           => (last'.outcome = "notfound" /\ rooms' = rooms) ]_vars

\* The registry: the rooms and who holds their slots.
Registry(rms) == [c \in DOMAIN rms |-> <<rms[c].host, rms[c].guest>>]

\* C7: on the registry, cleaning a connection up once, cleaning it up twice,
\* a leave followed by the close callback, and the close callback alone all
\* end in the same state.
C7_CleanupIdempotent ==
  \A ws \in DOMAIN clients :
    LET W0 == World(rooms, readyState, << >>, << >>)
        once == cleanupClient(W0, clients, ws)
        twice == cleanupClient(once, clients, ws)
        lv == HandleLeave(W0, clients[ws], ws)
        thenClose == cleanupClient(lv.W, [clients EXCEPT ![ws] = lv.client], ws)
    IN /\ Registry(twice.rooms) = Registry(once.rooms)
       /\ Registry(thenClose.rooms) = Registry(once.rooms)

C7_Witness ==
  /\ last.op = "close"
  /\ last.outcome = "changed"
  /\ \E ws \in DOMAIN clients :
       /\ readyState[ws] = "OPEN"
       /\ clients[ws].roomCode \in DOMAIN rooms
       /\ rooms[clients[ws].roomCode].host = ws

\* C3: a signal frame is forwarded only from one occupant of a room to the
\* other occupant of the same room.
C3_OnlyBetweenPaired ==
  \A i \in DOMAIN last.sent :
    last.sent[i].type = "signal"
    => /\ last.sent[i].to # last.ws
       /\ \E code \in DOMAIN rooms :
            {rooms[code].host, rooms[code].guest} = {last.ws, last.sent[i].to}

\* C5: once a connection that went away from a room holding two connections
\* has had its close callback run, the one that remained has been sent
\* peer-left exactly once for it.
C5_PeerLeftOnce ==
  \A d \in Conns : (dep[d].r # Null /\ readyState[d] = "CLOSED") => dep[d].n = 1

\* The signal frame just dispatched was looked up in the cache of its room.
SignalStep ==
  /\ last'.op = "signal"
  /\ last'.outcome \in {"duplicate", "relayed"}
  /\ last'.code \in DOMAIN relayLog

LogOf(ev) == relayLog[ev.code][sha256Base64Url22(ev.data)]

\* C8 (as stated): a payload relayed again within the TTL of its delivery
\* is dropped silently: nothing is sent to anyone.
C8_DroppedWithinTtl ==
  [][ ( /\ SignalStep
        /\ LogOf(last').delivered >= 0
        /\ now - LogOf(last').delivered <= SEEN_TTL_MS )
      => last'.sent = << >> ]_vars

\* C8 (amended): the same, unless the size bound of the room's cache has
\* evicted the fingerprint since the delivery.
C8_DroppedUnlessEvicted ==
  [][ ( /\ SignalStep
        /\ LogOf(last').delivered >= 0
        /\ now - LogOf(last').delivered <= SEEN_TTL_MS
        /\ ~LogOf(last').evicted )
      => (last'.sent = << >> /\ last'.outcome = "duplicate") ]_vars

C8_Witness ==
  /\ last.op = "signal"
  /\ last.outcome = "duplicate"
  /\ last.sent = << >>
  /\ last.code \in DOMAIN rooms
  /\ TwoPeers(rooms[last.code])
  /\ readyState[rooms[last.code].host] = "OPEN"
  /\ readyState[rooms[last.code].guest] = "OPEN"
  /\ relayLog[last.code][sha256Base64Url22(last.data)].delivered >= 0

\* The sender of the signal just dispatched holds one slot of its room and
\* the other slot holds a connection whose channel is open.
PeerOpen ==
  /\ last'.code \in DOMAIN rooms
  /\ TwoPeers(rooms[last'.code])
  /\ last'.ws \in {rooms[last'.code].host, rooms[last'.code].guest}
  /\ rooms[last'.code].host # rooms[last'.code].guest
  /\ readyState[rooms[last'.code].host] = "OPEN"
  /\ readyState[rooms[last'.code].guest] = "OPEN"

PeerOf(ws, room) == IF room.host = ws THEN room.guest ELSE room.host

DeliveredNow ==
  last'.sent = <<Msg(PeerOf(last'.ws, rooms[last'.code]), "signal", NoCode, last'.data,
                     last'.ws)>>

\* C9 (as stated): a payload relayed after the TTL has elapsed since its
\* delivery is delivered again, when the peer is there and open.
C9_AgainAfterTtl ==
  [][ ( /\ SignalStep
        /\ PeerOpen
        /\ LogOf(last').delivered >= 0
        /\ now - LogOf(last').delivered > SEEN_TTL_MS )
      => DeliveredNow ]_vars

\* C9 (amended): a payload relayed after the TTL has elapsed since it was
\* last relayed in the room, delivered or dropped as a duplicate, is
\* delivered again, when the peer is there and open.
C9_AgainAfterQuietTtl ==
  [][ ( /\ SignalStep
        /\ PeerOpen
        /\ LogOf(last').relayed >= 0
        /\ now - LogOf(last').relayed > SEEN_TTL_MS )
      => DeliveredNow ]_vars

C9_Witness ==
  /\ last.op = "signal"
  /\ last.outcome = "relayed"
  /\ last.sent # << >>
  /\ last.code \in DOMAIN relayLog
  /\ relayLog[last.code][sha256Base64Url22(last.data)].again

\* C10 (as stated): has returns true only for a key that add inserted no more
\* than the TTL ago and that has not been evicted since.
C10_AgeFromInsertion ==
  [][ (seenLog'.op = "has" /\ seenLog'.found)
      => /\ seenLog.marks[seenLog'.key].added >= 0
         /\ seenNow - seenLog.marks[seenLog'.key].added <= SEEN_TTL_MS
         /\ ~seenLog.marks[seenLog'.key].evicted ]_vars

\* C10 (amended): the age of an entry is measured from its last add or
\* successful has: has returns true exactly when the key was last added or
\* found no more than the TTL ago and the size bound has not evicted it since.
C10_AgeFromLastAccess ==
  [][ seenLog'.op = "has"
      => ( seenLog'.found <=>
             /\ seenLog.marks[seenLog'.key].touched >= 0
             /\ seenNow - seenLog.marks[seenLog'.key].touched <= SEEN_TTL_MS
             /\ ~seenLog.marks[seenLog'.key].evicted ) ]_vars

C10_Witness ==
  /\ seenLog.op = "has"
  /\ seenLog.found
  /\ seenLog.marks[seenLog.key].added >= 0
  /\ seenNow - seenLog.marks[seenLog.key].added > SEEN_TTL_MS

\* C11: after any sequence of has and add at non-decreasing times the cache
\* holds no more entries than its maximum.
C11_SizeBounded == Len(seen) <= SEEN_MAX

C11_Witness ==
  /\ seenLog.op = "add"
  /\ Len(seen) = SEEN_MAX
  /\ \E v \in Fps : seenLog.marks[v].evicted /\ v \notin Keys(seen)

\* The key was last added or found no more than the TTL ago and the size
\* bound has not evicted it since.
Live(k) ==
  /\ seenLog.marks[k].touched >= 0
  /\ seenNow - seenLog.marks[k].touched <= SEEN_TTL_MS
  /\ ~seenLog.marks[k].evicted

\* C12: an add that makes the cache exceed its maximum evicts one entry, one
\* whose last add or successful has is oldest, never the key just added, and
\* keeps every other unexpired entry; an add that does not exceed it keeps
\* every unexpired entry.
C12_EvictsLeastRecentlyUsed ==
  [][ seenLog'.op = "add"
      => LET key == seenLog'.key
             others == { k \in Fps \ {key} : Live(k) }
         IN IF Cardinality(others) + 1 > SEEN_MAX
            THEN \E v \in others :
                   /\ \A k \in others :
                        seenLog.marks[v].touched <= seenLog.marks[k].touched
                   /\ Keys(seen') = (others \ {v}) \cup {key}
            ELSE Keys(seen') = others \cup {key} ]_vars

C12_Witness ==
  /\ seenLog.op = "add"
  /\ \E v \in Fps, k \in Keys(seen) \ {seenLog.key} :
       /\ seenLog.marks[v].evicted
       /\ v \notin Keys(seen)
       /\ seenLog.marks[k].added < seenLog.marks[v].added
       /\ seenLog.marks[k].touched > seenLog.marks[v].touched

\* What `last.op` is after a frame went through the message handler.
MessageOps == {"create", "join", "signal", "leave", "pong", "rejected"}

\* C13: a frame that arrives when the connection's window has elapsed starts
\* a new window; within a window the first CONN_RATE_MAX frames are processed
\* and every further one is answered with one generic error, changes nothing
\* else and does not close the connection.
C13_RateWindow ==
  [][ \A ws \in Conns :
        (last'.op \in MessageOps /\ last'.ws = ws)
        => LET c == clients[ws]
               elapsed == now - c.msgWindowStart >= CONN_RATE_WINDOW_MS
               before == IF elapsed THEN 0 ELSE c.msgCount
           IN /\ clients'[ws].msgWindowStart = IF elapsed THEN now ELSE c.msgWindowStart
              /\ clients'[ws].msgCount = before + 1
              /\ readyState'[ws] = readyState[ws]
              /\ IF before >= CONN_RATE_MAX
                 THEN /\ last'.outcome = "rate"
                      /\ last'.sent = IF readyState[ws] = "OPEN" THEN <<ErrorTo(ws)>>
                                      ELSE << >>
                      /\ rooms' = rooms
                      /\ clients'[ws].roomCode = c.roomCode
                      /\ clients'[ws].isHost = c.isHost
                 ELSE last'.outcome # "rate" ]_vars

C13_Witness ==
  /\ last.op = "rejected"
  /\ last.outcome = "rate"
  /\ readyState[last.ws] = "OPEN"
  /\ last.sent = <<ErrorTo(last.ws)>>
  /\ clients[last.ws].msgCount > CONN_RATE_MAX
  /\ clients[last.ws].roomCode # NoCode
  /\ clients[last.ws].msgWindowStart >= CONN_RATE_WINDOW_MS

\* C14: a join on a code that is not in the registry, on a room that holds
\* two connections with the guest's channel open, or by the host of the room,
\* is rejected; and a rejected join changes neither the registry nor the
\* requester's association and is answered with one generic error.
C14_RejectedJoinNoEffect ==
  [][ \A ws \in Conns :
        (last'.op = "join" /\ last'.ws = ws)
        => LET code == last'.code
               absent == code \notin DOMAIN rooms
               held == /\ ~absent
                       /\ TwoPeers(rooms[code])
                       /\ readyState[rooms[code].guest] = "OPEN"
               self == ~absent /\ rooms[code].host = ws
           IN /\ (absent \/ held \/ self) => last'.outcome # "joined"
              /\ last'.outcome # "joined"
                 => /\ rooms' = rooms
                    /\ clients'[ws].roomCode = clients[ws].roomCode
                    /\ clients'[ws].isHost = clients[ws].isHost
                    /\ last'.sent = IF readyState[ws] = "OPEN" THEN <<ErrorTo(ws)>>
                                    ELSE << >> ]_vars

C14_Witness ==
  /\ last.op = "join"
  /\ last.outcome = "full"
  /\ last.sent = <<ErrorTo(last.ws)>>
  /\ TwoPeers(rooms[last.code])
  /\ last.ws \notin {rooms[last.code].host, rooms[last.code].guest}
  /\ clients[last.ws].roomCode = NoCode

\* C15: a join by a connection whose channel is open, on a room that holds a
\* host and a guest, does not succeed and leaves the guest slot as it is,
\* whatever the state of the guest's channel.
C15_NeverReplacesGuest ==
  [][ \A ws \in Conns :
        ( /\ last'.op = "join"
          /\ last'.ws = ws
          /\ readyState[ws] = "OPEN"
          /\ last'.code \in DOMAIN rooms
          /\ TwoPeers(rooms[last'.code]) )
        => /\ last'.outcome # "joined"
           /\ last'.code \in DOMAIN rooms'
           /\ rooms'[last'.code].guest = rooms[last'.code].guest ]_vars

\* The number of room-closed frames for room `code` sent to `ws` by the
\* handler that ran last.
RoomClosedTo(ev, ws, code) ==
  Cardinality({ i \in DOMAIN ev.sent :
                  /\ ev.sent[i].type = "room-closed"
                  /\ ev.sent[i].to = ws
                  /\ ev.sent[i].room = code })

\* C16: a sweep removes every room older than the maximum lifetime and sends
\* room-closed for it once to each occupant whose channel is open, and to no
\* occupant whose channel is not.
C16_SweepClosesOldRooms ==
  [][ last'.op = "sweep"
      => \A code \in DOMAIN rooms :
           now - rooms[code].createdAt > MAX_ROOM_AGE_MS
           => /\ code \notin DOMAIN rooms'
              /\ \A o \in {rooms[code].host, rooms[code].guest} \ {Null} :
                   RoomClosedTo(last', o, code)
                     = IF readyState[o] = "OPEN" THEN 1 ELSE 0 ]_vars

C16_Witness ==
  /\ last.op = "sweep"
  /\ rooms = << >>
  /\ \E o \in {1, 2}, c \in {1, 2} :
       /\ o # c
       /\ readyState[o] = "OPEN"
       /\ readyState[c] = "CLOSING"
       /\ clients[o].roomCode = <<"a">>
       /\ clients[c].roomCode = <<"a">>
       /\ last.sent = <<Msg(o, "room-closed", <<"a">>, NoData, Null)>>

\* k is written in lower case and has no whitespace at either end.
Canonical(k) ==
  /\ k # << >>
  /\ k[1] # " "
  /\ k[Len(k)] # " "
  /\ \A n \in DOMAIN k : Lower(k[n]) = k[n]

\* raw is k up to letter case, with nothing but spaces before and after.
SameCode(raw, k) ==
  \E i \in 0..Len(raw), j \in 0..Len(raw) :
    /\ i + Len(k) + j = Len(raw)
    /\ \A n \in 1..i : raw[n] = " "
    /\ \A n \in 1..j : raw[i + Len(k) + n] = " "
    /\ \A n \in 1..Len(k) : Lower(raw[i + n]) = k[n]

CodeFrames == {CreateA, CreateB, JoinA, JoinB}

\* C17: every key of the registry is canonical; a create or join addresses
\* the room whose key is the canonical form of the code it carries, however
\* that code is written: create makes the room under that key unless it is
\* there already, join finds it exactly when it is there, and the created or
\* joined reply carries that key.
C17_CodesNormalized ==
  [][ \A ws \in {1, 2}, f \in CodeFrames :
        (OnMessage(ws, f) /\ last'.outcome # "rate")
        => LET match == { k \in DOMAIN rooms : SameCode(f.room, k) }
               reply(k) == Msg(ws, IF f.type = "create" THEN "created" ELSE "joined",
                               k, NoData, ws)
               addressed(k) ==
                 /\ Canonical(k)
                 /\ SameCode(f.room, k)
                 /\ clients'[ws].roomCode = k
                 /\ last'.code = k
                 /\ readyState[ws] = "OPEN" => last'.sent[1] = reply(k)
           IN /\ \A k \in DOMAIN rooms' : Canonical(k)
              /\ f.type = "create"
                 => IF match # {} THEN last'.outcome = "conflict"
                    ELSE /\ last'.outcome = "created"
                         /\ \E k \in DOMAIN rooms' \ DOMAIN rooms :
                              addressed(k) /\ rooms'[k].host = ws
              /\ f.type = "join"
                 => IF match = {} THEN last'.outcome = "notfound"
                    ELSE /\ last'.outcome # "notfound"
                         /\ last'.outcome = "joined"
                            => \E k \in match : addressed(k) /\ rooms'[k].guest = ws ]_vars

C17_Witness ==
  /\ last.op = "join"
  /\ last.outcome = "joined"
  /\ last.code = <<"a">>
  /\ <<"a">> \in DOMAIN rooms
  /\ rooms[<<"a">>].guest = last.ws
  /\ last.sent[1] = Msg(last.ws, "joined", <<"a">>, NoData, last.ws)
  /\ SameCode(CreateA.room, <<"a">>)
  /\ CreateA.room # JoinA.room

\* C18: no room of the registry has both slots empty.
C18_NoEmptyRoom ==
  \A code \in DOMAIN rooms : rooms[code].host # Null \/ rooms[code].guest # Null

C18_Witness ==
  /\ last.op = "close"
  /\ last.outcome = "changed"
  /\ last.code # NoCode
  /\ last.code \notin DOMAIN rooms

\* C19: no room has one connection in both slots.
C19_HostIsNotGuest ==
  \A code \in DOMAIN rooms :
    rooms[code].host # Null => rooms[code].host # rooms[code].guest

C19_Witness ==
  /\ last.op = "join"
  /\ last.outcome = "self"
  /\ last.code \in DOMAIN rooms
  /\ rooms[last.code].host = last.ws
  /\ rooms[last.code].guest # last.ws

\* ws holds a slot of the room its association names.
InItsRoom(rms, cl, ws) ==
  /\ cl[ws].roomCode \in DOMAIN rms
  /\ ws \in {rms[cl[ws].roomCode].host, rms[cl[ws].roomCode].guest}

\* C20: at a heartbeat tick a connection whose alive flag is clear is taken
\* out of the room its association names and terminated, and any other
\* connection has its flag cleared and is otherwise left as it is; and the
\* flag is only ever set by the connection being accepted or answering a
\* probe.  A connection that stops answering therefore has its flag cleared
\* by the first tick after its last answer and is removed and terminated by
\* the second.
C20_HeartbeatTwoTicks ==
  [][ /\ last'.op = "heartbeat"
         => \A i \in DOMAIN wssClients :
              LET ws == wssClients[i] IN
              IF isAlive[ws]
              THEN /\ ~isAlive'[ws]
                   /\ readyState'[ws] = readyState[ws]
                   /\ InItsRoom(rooms, clients, ws) => InItsRoom(rooms', clients', ws)
              ELSE /\ ~isAlive'[ws]
                   /\ readyState'[ws] = "CLOSING"
                   /\ ~InItsRoom(rooms', clients', ws)
      /\ \A ws \in Conns :
           (isAlive'[ws] /\ ~isAlive[ws])
           => (last'.op \in {"connection", "ws-pong"} /\ last'.ws = ws) ]_vars

C20_Witness ==
  /\ last.op = "heartbeat"
  /\ \E ws \in Conns :
       /\ readyState[ws] = "CLOSING"
       /\ ~isAlive[ws]
       /\ clients[ws].roomCode \in DOMAIN rooms
       /\ ~InItsRoom(rooms, clients, ws)
       /\ dep[ws].r # Null
       /\ dep[ws].n = 1
       /\ \E i \in DOMAIN last.sent :
            last.sent[i].type = "peer-left" /\ last.sent[i].by = ws

\* ---------------------------------------------------------------- liveness
Pong == Frame("pong", FALSE, NoCode, NoData)

\* Two connections, one room code, both kinds of pong, the heartbeat and the
\* close callback.
NextLiveness ==
  \/ \E ws \in {1, 2} : Connection(ws)
  \/ \E ws \in {1, 2}, f \in {CreateA, JoinA, Pong} : OnMessage(ws, f)
  \/ \E ws \in {1, 2} : OnPong(ws)
  \/ \E ws \in {1, 2} : OnClose(ws)
  \/ Heartbeat

SpecLiveness == Init /\ [][NextLiveness]_vars

\* C21 as stated: a pong message sets the alive flag of its sender just as a
\* transport-level pong does, and a connection whose pong message was the
\* last thing before a heartbeat tick is not terminated by that tick.
C21_EitherPongSetsFlag ==
  [][ /\ last'.op \in {"pong", "ws-pong"} => isAlive'[last'.ws]
      /\ (last.op = "pong" /\ last'.op = "heartbeat" /\ readyState[last.ws] = "OPEN")
         => readyState'[last.ws] = "OPEN" ]_vars

\* C21, amended: only the transport-level pong sets the alive flag.  A pong
\* message is accepted without an error frame and leaves every flag, the
\* registry and the sender's association as they were, so a connection whose
\* flag is clear at a heartbeat tick is terminated by it whatever pong
\* messages it has sent.
C21_OnlyTransportPong ==
  [][ /\ last'.op = "ws-pong" => isAlive'[last'.ws]
      /\ last'.op = "pong"
         => /\ isAlive' = isAlive
            /\ last'.sent = << >>
            /\ rooms' = rooms
            /\ clients'[last'.ws].roomCode = clients[last'.ws].roomCode
            /\ readyState' = readyState
      /\ last'.op = "heartbeat"
         => \A i \in DOMAIN wssClients :
              ~isAlive[wssClients[i]] => readyState'[wssClients[i]] = "CLOSING" ]_vars

\* A pong message of an open connection in a room, processed after a probe,
\* with the flag still clear.
C21_Witness ==
  /\ last.op = "pong"
  /\ last.outcome = "pong"
  /\ readyState[last.ws] = "OPEN"
  /\ ~isAlive[last.ws]
  /\ InItsRoom(rooms, clients, last.ws)

\* C22 as stated: a connection that has left one probe unanswered when the
\* next heartbeat tick comes is not terminated by that tick.
C22_OneMissedProbeTolerated ==
  [][ last'.op = "heartbeat"
      => \A i \in DOMAIN wssClients :
           LET ws == wssClients[i] IN
           (readyState[ws] = "OPEN" /\ ~isAlive[ws]) => readyState'[ws] = "OPEN" ]_vars

\* C22, amended: no missed probe is tolerated.  A connection that answered
\* the last probe at any time before the tick is kept and probed again; one
\* that has not is terminated by the tick without another probe, and nothing
\* that arrives afterwards opens its channel again.
C22_MissedProbeTerminates ==
  [][ /\ last'.op = "heartbeat"
         => \A i \in DOMAIN wssClients :
              LET ws == wssClients[i] IN
              /\ (readyState[ws] = "OPEN" /\ isAlive[ws])
                 => (readyState'[ws] = "OPEN" /\ ~isAlive'[ws])
              /\ (readyState[ws] = "OPEN" /\ ~isAlive[ws]) => readyState'[ws] = "CLOSING"
      /\ \A ws \in Conns :
           readyState[ws] \in {"CLOSING", "CLOSED"} => readyState'[ws] # "OPEN" ]_vars

\* A tick that terminated one occupant of a room for one unanswered probe
\* and kept the other, which had answered.
C22_Witness ==
  /\ last.op = "heartbeat"
  /\ \E ws \in Conns, other \in Conns :
       /\ readyState[ws] = "CLOSING"
       /\ readyState[other] = "OPEN"
       /\ InItsRoom(rooms, clients, other)
       /\ clients[ws].roomCode = clients[other].roomCode
       /\ \E i \in DOMAIN last.sent :
            last.sent[i] = Msg(other, "peer-left", NoCode, NoData, ws)

\* C23 as stated: a signal from a connection whose associated room is no
\* longer in the registry sends nothing to anyone, the sender included, and
\* leaves the registry and the sender's association as they were.
C23_SilentWhenRoomGone ==
  [][ (last'.op = "signal" /\ last'.outcome = "noroom")
      => /\ last'.sent = << >>
         /\ rooms' = rooms
         /\ clients'[last'.ws].roomCode = clients[last'.ws].roomCode ]_vars

\* C23, amended: such a signal is rejected like any other bad frame: the
\* sender gets one generic error frame, nothing is forwarded to anyone else,
\* and the registry and the sender's association stay as they were.
C23_ErrorWhenRoomGone ==
  [][ (last'.op = "signal" /\ last'.outcome = "noroom")
      => /\ clients[last'.ws].roomCode # NoCode
         /\ clients[last'.ws].roomCode \notin DOMAIN rooms
         /\ last'.sent = IF readyState[last'.ws] = "OPEN" THEN <<ErrorTo(last'.ws)>>
                         ELSE << >>
         /\ rooms' = rooms
         /\ clients'[last'.ws].roomCode = clients[last'.ws].roomCode
         /\ readyState' = readyState ]_vars

\* A signal of an open connection whose room was closed by the sweep while
\* its old peer is still connected.
C23_Witness ==
  /\ last.op = "signal"
  /\ last.outcome = "noroom"
  /\ last.code \notin DOMAIN rooms
  /\ last.sent = <<ErrorTo(last.ws)>>
  /\ \E other \in Conns \ {last.ws} :
       readyState[other] = "OPEN" /\ clients[other].roomCode = last.code

\* --------------------------------------------------------------- rejections
Bogus == Frame("bogus", FALSE, NoCode, NoData)
CreateNoRoom == Frame("create", FALSE, NoCode, NoData)
SignalNoData == Frame("signal", FALSE, NoCode, NoData)

\* One frame for every way the message handler can turn a frame down.
RejectFrames ==
  {Garbage, Bogus, CreateNoRoom, SignalNoData, CreateA, JoinA, JoinB, Signal(Sdp1)}

\* The returns of the message handler that refuse the frame.
Rejections ==
  {"rate", "malformed", "invalid", "unknown", "conflict", "notfound", "unavailable",
   "full", "self", "notinroom", "noroom"}

\* Two connections, one room, every kind of bad frame, and a host whose
\* socket stops being open.
NextReject ==
  \/ \E ws \in {1, 2} : Connection(ws)
  \/ \E ws \in {1, 2}, f \in RejectFrames : OnMessage(ws, f)
  \/ PeerClosing(1)

SpecReject == Init /\ [][NextReject]_vars

\* C24: a frame that the message handler refuses, for whatever cause, is
\* answered with the one generic error frame and nothing else, sent to the
\* sender if its channel is open; any other frame the sender could have had
\* refused in the same state would have been answered with the same frames;
\* no channel changes state and the sender stays among the server's
\* connections.  A frame that is not refused sends no error frame.
C24_OneGenericError ==
  [][ \A ws \in Conns :
        (last'.op \in MessageOps /\ last'.ws = ws)
        => IF last'.outcome \in Rejections
           THEN /\ last'.sent = IF readyState[ws] = "OPEN" THEN <<ErrorTo(ws)>> ELSE << >>
                /\ \A g \in RejectFrames :
                     LET r == MessageResult(rooms, clients, readyState, ws, g, now) IN
                     r.outcome \in Rejections => r.W.sent = last'.sent
                /\ readyState' = readyState
                /\ wssClients' = wssClients
                /\ rooms' = rooms
           ELSE \A i \in DOMAIN last'.sent : last'.sent[i].type # "error" ]_vars

\* An open connection in a room whose frame was refused and answered with
\* the generic error frame, in a state where frames of that connection could
\* have been refused for at least four different causes.
C24_Witness ==
  /\ last.op \in MessageOps
  /\ last.outcome \in Rejections
  /\ readyState[last.ws] = "OPEN"
  /\ last.sent = <<ErrorTo(last.ws)>>
  /\ InItsRoom(rooms, clients, last.ws)
  /\ Cardinality({ MessageResult(rooms, clients, readyState, last.ws, g, now).outcome :
                     g \in RejectFrames } \cap Rejections) >= 4

\* --------------------------------------------------------------- the gate
\* The server started with any of the allowlists, behind a trusted proxy or
\* not.
InitGate ==
  \E e \in AllowedEnv, tp \in {"", "1"} : InitWith(ParseAllowedOrigins(e), tp = "1")

\* Requests with every origin, from one address or from none.
OriginRequests ==
  { Request(o, Header(<<"a">>), NoHeader, r) : o \in Origins, r \in {<< >>, <<"1">>} }

NextOrigin ==
  \/ \E req \in OriginRequests : Upgrade(req)

SpecOrigin == InitGate /\ [][NextOrigin]_vars

\* No allowlist, behind a trusted proxy or not.
InitRate ==
  \E tp \in {"", "1"} : InitWith(ParseAllowedOrigins(<< >>), tp = "1")

\* Requests without an origin, with every forwarding header and address.
RateRequests ==
  { Request(NoHeader, Header(<<"a">>), x, r) : x \in Forwarded, r \in Addresses }

\* Upgrade requests, the clock and the sweep timer.
NextRate ==
  \/ \E req \in RateRequests : Upgrade(req)
  \/ RoomCleanup
  \/ Tick

SpecRate == InitRate /\ [][NextRate]_vars

\* C25: the source address of a request that passed the origin check is
\* counted in a fixed window.  With no bucket for the address, or with the
\* window's length or more elapsed since the bucket's start, the request is
\* admitted and the bucket becomes (1, now); otherwise the count goes up by
\* one, the window start stays, and the request is rejected (429) exactly
\* when the new count exceeds IP_RATE_MAX.  No other address's count changes,
\* and no address has more than IP_RATE_MAX requests admitted in one window.
C25_SourceWindow ==
  [][ (last'.op = "upgrade" /\ gate'.check \notin {"origin", "address"})
      => LET ip == gate'.ip
             fresh == \/ ip \notin DOMAIN buckets
                      \/ now - buckets[ip].windowStart >= IP_RATE_WINDOW_MS
         IN /\ ip = getClientIp(TRUST_PROXY, gate'.req)
            /\ ip \in DOMAIN buckets'
            /\ IF fresh
               THEN /\ gate'.ok
                    /\ buckets'[ip] = [count |-> 1, windowStart |-> now]
               ELSE /\ buckets'[ip] = [count |-> buckets[ip].count + 1,
                                       windowStart |-> buckets[ip].windowStart]
                    /\ gate'.ok <=> buckets'[ip].count <= IP_RATE_MAX
            /\ ~gate'.ok => (gate'.check = "rate" /\ gate'.code = 429)
            /\ \A k \in (DOMAIN buckets') \ {ip} : k \in DOMAIN buckets /\ buckets'[k] = buckets[k]
            /\ \A k \in DOMAIN gate'.admits : gate'.admits[k].n <= IP_RATE_MAX ]_vars

\* A request rejected by the rate check, from an address taken from the
\* forwarding header, after IP_RATE_MAX requests of that address were
\* admitted in the window, while another address has a bucket of its own.
C25_Witness ==
  /\ last.op = "upgrade"
  /\ gate.check = "rate"
  /\ gate.code = 429
  /\ TRUST_PROXY
  /\ gate.ip # gate.req.remoteAddress
  /\ buckets[gate.ip].count = IP_RATE_MAX + 1
  /\ gate.admits[gate.ip].n = IP_RATE_MAX
  /\ \E k \in DOMAIN buckets : k # gate.ip

\* C26: with a non-empty allowlist a request is admitted only if it carries
\* an origin that is, character for character, an entry of the allowlist.
\* A request without an origin, with an empty one or with one that is not
\* listed is rejected (403) before its address is looked at or counted, and
\* a rejected request leaves the registry, the client records and every
\* socket as they were.
C26_AllowlistVerbatim ==
  [][ (last'.op = "upgrade" /\ Len(ALLOWED_ORIGINS) > 0)
      => LET o == gate'.req.origin
             listed == /\ o.present
                       /\ o.value # << >>
                       /\ \E i \in DOMAIN ALLOWED_ORIGINS : ALLOWED_ORIGINS[i] = o.value
         IN /\ gate'.ok => listed
            /\ ~listed => /\ ~gate'.ok
                          /\ gate'.code = 403
                          /\ gate'.check = "origin"
                          /\ buckets' = buckets
            /\ ~gate'.ok => UNCHANGED <<rooms, clients, readyState, isAlive, wssClients>> ]_vars

\* With an allowlist of two entries parsed from ' a, ,b', a request whose
\* origin differs from an entry only in case is rejected after another
\* request was admitted.
C26_Witness ==
  /\ last.op = "upgrade"
  /\ ALLOWED_ORIGINS = << <<"a">>, <<"b">> >>
  /\ ~gate.ok
  /\ gate.check = "origin"
  /\ gate.req.origin.present
  /\ ~includes(ALLOWED_ORIGINS, gate.req.origin.value)
  /\ includes(ALLOWED_ORIGINS, toLowerCase(gate.req.origin.value))
  /\ wssClients # << >>

HasOpenOccupant(room, rs) ==
  \/ room.host # Null /\ rs[room.host] = "OPEN"
  \/ room.guest # Null /\ rs[room.guest] = "OPEN"

\* C29: after a sweep every room left in the registry has an occupant whose
\* channel is open; and a room that had one and was not older than the
\* maximum lifetime is still registered after the sweep, unchanged, with no
\* frame sent about it.  The rooms a sweep removes are exactly the others.
C29_SweepRemovesDeadRooms ==
  [][ last'.op = "sweep"
      => /\ \A code \in DOMAIN rooms' : HasOpenOccupant(rooms'[code], readyState')
         /\ \A code \in DOMAIN rooms :
              IF /\ HasOpenOccupant(rooms[code], readyState)
                 /\ now - rooms[code].createdAt <= MAX_ROOM_AGE_MS
              THEN /\ code \in DOMAIN rooms'
                   /\ rooms'[code] = rooms[code]
                   /\ \A i \in DOMAIN last'.sent : last'.sent[i].room # code
              ELSE code \notin DOMAIN rooms'
         /\ readyState' = readyState ]_vars

\* A sweep found no room to keep, within the maximum lifetime of the room
\* that the two connections, both no longer open, were host and guest of:
\* the room went for having no open occupant, and nobody was told.
C29_Witness ==
  /\ last.op = "sweep"
  /\ rooms = << >>
  /\ last.sent = << >>
  /\ now <= MAX_ROOM_AGE_MS
  /\ {1, 2} \subseteq DOMAIN clients
  /\ clients[1].roomCode = <<"a">>
  /\ clients[2].roomCode = <<"a">>
  /\ readyState[1] = "CLOSING"
  /\ readyState[2] = "CLOSING"

\* The slots ws holds across the registry.
SlotsOf(rms, ws) ==
  { <<code, "host">> : code \in { c \in DOMAIN rms : rms[c].host = ws } }
    \cup { <<code, "guest">> : code \in { c \in DOMAIN rms : rms[c].guest = ws } }

\* C30: in every reachable state, a connection whose channel is open holds
\* at most one slot across all rooms, and its roomCode is a code c exactly
\* when it is the host or the guest of the room registered under c.
C30_RecordAgreesWithRegistry ==
  \A ws \in DOMAIN clients :
    readyState[ws] = "OPEN"
    => /\ Cardinality(SlotsOf(rooms, ws)) <= 1
       /\ \A code \in ((DOMAIN rooms) \cup {clients[ws].roomCode}) \ {NoCode} :
            clients[ws].roomCode = code
            <=> (code \in DOMAIN rooms /\ ws \in {rooms[code].host, rooms[code].guest})

\* ------------------------------------------------------- dedup across peers
\* Three connections, one room created by the first; the other two join,
\* the second may leave or stop being open; the host sends one payload; the
\* clock for as long as what was recorded at the start is within the TTL.
NextDedup ==
  \/ \E ws \in Conns : Connection(ws)
  \/ OnMessage(1, CreateA)
  \/ \E ws \in {2, 3} : OnMessage(ws, JoinA)
  \/ OnMessage(2, Leave)
  \/ OnMessage(1, Signal(Sdp1))
  \/ PeerClosing(2)
  \/ (now < SEEN_TTL_MS /\ Tick)

SpecDedup == Init /\ [][NextDedup]_vars

\* C31: whether a signal is a duplicate is decided by the room's cache
\* alone.  A signal that is not a duplicate leaves its fingerprint in the
\* cache with the current time, whether or not anything was delivered; a
\* join, a leave or a close leaves the cache of every room that stays as it
\* was; and a payload whose fingerprint was recorded or refreshed within the
\* TTL and not evicted since is dropped with nothing sent, whoever is in the
\* other slot now and whoever, if anyone, received it before.
C31_DedupIgnoresReceiver ==
  [][ /\ SignalStep
         => LET id == sha256Base64Url22(last'.data)
                log == LogOf(last')
            IN /\ last'.outcome = "relayed"
                  => /\ id \in Keys(rooms'[last'.code].seenIds)
                     /\ TsOf(rooms'[last'.code].seenIds, id) = now
               /\ (log.relayed >= 0 /\ now - log.relayed <= SEEN_TTL_MS /\ ~log.evicted)
                  => (last'.outcome = "duplicate" /\ last'.sent = << >>)
      /\ last'.op \in {"join", "leave", "close", "closing"}
         => \A code \in (DOMAIN rooms) \cap (DOMAIN rooms') :
              rooms'[code].seenIds = rooms[code].seenIds ]_vars

\* A payload that was never delivered to anyone is dropped as a duplicate
\* although the room now holds a host and a guest, both open: the third
\* connection, which joined after the payload was first sent.
C31_Witness ==
  /\ last.op = "signal"
  /\ last.outcome = "duplicate"
  /\ last.sent = << >>
  /\ last.code \in DOMAIN rooms
  /\ rooms[last.code].host = 1
  /\ rooms[last.code].guest = 3
  /\ readyState[1] = "OPEN"
  /\ readyState[3] = "OPEN"
  /\ relayLog[last.code][sha256Base64Url22(last.data)].delivered = -1


\* ------------------------------------------------------- throttled frames
ThrottleFrames == {CreateA, JoinA, Leave, Signal(Sdp1)}

\* Two connections, one room code, one payload: create and signal by the
\* first, join by the second, leave by either, and the clock.
NextThrottle ==
  \/ \E ws \in {1, 2} : Connection(ws)
  \/ \E f \in {CreateA, Signal(Sdp1), Leave} : OnMessage(1, f)
  \/ \E f \in {JoinA, Leave} : OnMessage(2, f)
  \/ Tick

SpecThrottle == Init /\ [][NextThrottle]_vars

OverLimit(ws) ==
  /\ ws \in DOMAIN clients
  /\ now - clients[ws].msgWindowStart < CONN_RATE_WINDOW_MS
  /\ clients[ws].msgCount >= CONN_RATE_MAX

\* C32: a frame that arrives when its connection has already used up the
\* current rate window, whatever its type (a leave included), only advances
\* the connection's counter and is answered with at most the one generic
\* error to its sender: the registry with every room's slots and dedup cache,
\* every connection's room association and host flag, every other
\* connection's record and every socket's state are unchanged, and nothing
\* is sent to anyone else.
C32_RateRejectedInert ==
  [][ \A ws \in {1, 2}, f \in ThrottleFrames :
        (OverLimit(ws) /\ OnMessage(ws, f))
        => /\ last'.outcome = "rate"
           /\ rooms' = rooms
           /\ clients' = [clients EXCEPT ![ws].msgCount = @ + 1]
           /\ readyState' = readyState
           /\ relayLog' = relayLog
           /\ last'.sent = IF readyState[ws] = "OPEN" THEN <<ErrorTo(ws)>> ELSE << >> ]_vars

\* A frame has just been rejected by the rate limit while its sender is the
\* guest of a room with an open host and a non-empty dedup cache, and the
\* sender still holds its slot.
C32_Witness ==
  /\ last.op = "rejected" /\ last.outcome = "rate" /\ last.ws = 2
  /\ {1, 2} \subseteq DOMAIN clients
  /\ clients[2].msgCount = CONN_RATE_MAX + 1
  /\ clients[2].roomCode \in DOMAIN rooms
  /\ rooms[clients[2].roomCode].host = 1
  /\ rooms[clients[2].roomCode].guest = 2
  /\ rooms[clients[2].roomCode].seenIds # << >>
  /\ readyState[1] = "OPEN" /\ readyState[2] = "OPEN"
  /\ last.sent = <<ErrorTo(2)>>


\* ------------------------------------------------------ bucket collection
Limited == gate.req # NoRequest /\ gate.check \notin {"origin", "address"}

\* C33: collecting source-address buckets never changes an answer of allow.
\* Every request that reaches the rate limiter gets the answer it would get
\* from a limiter given the same calls at the same times and never cleaned:
\* every bucket the limiter holds is the one the uncleaned limiter
\* holds, and every bucket it has dropped started at least two windows ago,
\* so the next allow for that address starts a new window either way.
C33_CleanupTransparent ==
  /\ Limited => (gate.ok <=> gate.keptOk)
  /\ \A k \in DOMAIN buckets : k \in DOMAIN gate.kept /\ gate.kept[k] = buckets[k]
  /\ \A k \in (DOMAIN gate.kept) \ (DOMAIN buckets) :
       now - gate.kept[k].windowStart >= IP_RATE_WINDOW_MS * 2

\* An address is rejected by both limiters in a window that started two
\* windows or more after the start, while the bucket of another address has
\* been collected and is still held by the uncleaned limiter.
C33_Witness ==
  /\ Limited /\ ~gate.ok /\ ~gate.keptOk
  /\ gate.check = "rate"
  /\ gate.ip \in DOMAIN buckets
  /\ buckets[gate.ip].windowStart >= IP_RATE_WINDOW_MS * 2
  /\ buckets[gate.ip].count > IP_RATE_MAX
  /\ \E k \in (DOMAIN gate.kept) \ (DOMAIN buckets) : k # gate.ip


\* ------------------------------------------------------ order of the cache
TimeOrdered(m) == \A i, j \in DOMAIN m : i < j => m[i].ts <= m[j].ts

Unexpired(m, t) == SelectSeq(m, LAMBDA e : t - e.ts <= SEEN_TTL_MS)

\* C34: with a clock that never goes back, the cache iterates its entries in
\* non-decreasing order of timestamp after any sequence of has and add calls.
\* The purge from the front, which stops at the first entry that has not
\* expired, therefore removes exactly the expired entries at the present or
\* any later time, and right after a has or an add no entry older than the
\* TTL is left.
C34_FrontPurgeComplete ==
  /\ TimeOrdered(seen)
  /\ \A t \in seenNow .. MaxTime :
       BoundedSeenIds_purgeExpired(seen, t, SEEN_TTL_MS) = Unexpired(seen, t)
  /\ seenLog.op \in {"has", "add"}
       => \A i \in DOMAIN seen : seenNow - seen[i].ts <= SEEN_TTL_MS

\* A has or an add has just purged an expired entry that had never been
\* evicted for size, and kept an older entry that has not expired.
C34_Witness ==
  /\ seenLog.op \in {"has", "add"}
  /\ \E k \in Fps : /\ seenLog.marks[k].added >= 0
                    /\ seenNow - seenLog.marks[k].touched > SEEN_TTL_MS
                    /\ ~seenLog.marks[k].evicted
                    /\ k \notin Keys(seen)
  /\ \E i \in DOMAIN seen : seen[i].ts < seenNow

====
